---- MODULE Spec2Model ----
(***************************************************************************)
(* Quest-Resource-Monitor frontend core:                                   *)
(*   - APIClient.request   (src/frontend/modules/api-client.js)            *)
(*   - StateManager        (src/frontend/modules/state-manager.js)         *)
(*   - App orchestrator    (src/frontend/app.js)                           *)
(* The specifications of the module: SpecRequest (one request), SpecStore, *)
(* SpecStoreAbsent and SpecTree (the store), Spec (the orchestrator's       *)
(* timers and requests), SpecBoot (Spec with fairness), SpecData (what the *)
(* handlers of the responses do to the store and the dashboard) and        *)
(* SpecLive (the store with callbacks that unsubscribe during a            *)
(* broadcast).  Each leaves the other components' variables alone.         *)
(***************************************************************************)
EXTENDS Integers, Sequences, FiniteSets, Bags, TLC

VARIABLES
    \* ---- APIClient.request ----
    rpc,            \* position of the request: idle, fetching, backoff, returned, failed
    attempt,        \* the loop variable of the retry loop
    timeoutArmed,   \* the setTimeout(() => controller.abort(), TIMEOUT_MS) is pending
    aborted,        \* controller.abort() has run
    lastError,      \* the variable lastError (NoError: undefined)
    observed,       \* what each fetch so far ended with, in order
    delays,         \* the backoff delays waited so far, in order
    firedIn,        \* where the request was when the timer of line 16 fired
    \* ---- StateManager ----
    state,          \* the state tree
    subscribers,    \* the Map subscribers: path -> Set of callbacks, in insertion order
    handles,        \* the unsubscribe functions returned so far, per (path, callback):
                    \* how many were never called (fresh) and how many were called (used)
    calls,          \* the callback invocations of the latest setState, in order
    lastSet,        \* the latest setState: its path, value, and whether it threw
    lastGet,        \* the latest getState: its path and what it returned
    unsubscribing,  \* what a callback of the latest setState did during the
                    \* broadcast: who called the unsubscribe function of which
                    \* registration (SpecLive)
    \* ---- App ----
    pollTimer,        \* the variable pollTimer holds an interval timer
    devicePollTimer,  \* the variable devicePollTimer holds an interval timer
    isPolling,
    pollCounter,
    liveSlow,         \* interval timers of the slow stream that were set and not cleared
    liveFast,         \* interval timers of the fast stream that were set and not cleared
    reconnectTimers,  \* pending setTimeout callbacks of pollMetrics (line 190)
    bootRetryTimers,  \* pending setTimeout(init, 5000) callbacks (line 38)
    tasks,            \* the async activations awaiting a response: <<proc, pc>> -> count
    started,          \* App.init() was called (DOM ready)
    bootFailures,     \* how many boot probes failed
    shutdownDone,     \* shutdown() has run
    \* history of the run, read by the properties only
    bootProbeOk,      \* a health probe of init has succeeded
    initialFetch,     \* fetchInitialData: "none", "running", "done"
    dataRequested,    \* a data request of the orchestrator was issued
    offlineHold,      \* an offline transition happened and no reconnect probe
                      \* has succeeded since
    reconnectResult,  \* how the latest reconnect probe ended: "none", "ok", "failed"
    swallowed,        \* a poll of the fast stream or a network or storage poll of
                      \* the slow stream has failed
    \* ---- the responses and what their handlers do (SpecData) ----
    inflight,         \* the getCurrentMetrics requests awaiting their response, by
                      \* issue number, in the order of issue
    issued,           \* how many getCurrentMetrics requests were issued
    processed,        \* the metrics responses handled so far, in the order of handling
    handled,          \* the response handled in the latest step
    writes,           \* the setState calls of the latest step, in order
    uiCalls           \* the calls of Dashboard's status handlers that the orchestrator
                      \* made itself in the latest step, in order

reqVars == <<rpc, attempt, timeoutArmed, aborted, lastError, observed, delays, firedIn>>

storeVars == <<state, subscribers, handles, calls, lastSet, lastGet>>

pollerVars == <<pollTimer, devicePollTimer, isPolling, liveSlow, liveFast>>

historyVars == <<bootProbeOk, initialFetch, dataRequested, offlineHold, reconnectResult,
                 swallowed>>

appVars == <<pollerVars, pollCounter, reconnectTimers, bootRetryTimers, tasks, started,
             bootFailures, shutdownDone, historyVars>>

liveVars == <<unsubscribing>>

dataVars == <<inflight, issued, processed, handled, writes, uiCalls>>

vars == <<reqVars, storeVars, appVars, dataVars, liveVars>>

(***************************************************************************)
(* APIClient.request                                                       *)
(***************************************************************************)
TIMEOUT_MS == 5000
MAX_RETRIES == 3

\* Math.pow(2, attempt)
RECURSIVE Pow2(_)
Pow2(n) == IF n = 0 THEN 1 ELSE 2 * Pow2(n - 1)

\* A delay that starts from the base delay: Math.pow(2, attempt - 1) * 100
BackoffDelayFromBase(a) == Pow2(a - 1) * 100

\* Math.pow(2, attempt) * 100: the delay waited after a failed attempt
BackoffDelay(a) == Pow2(a) * 100

\* Message texts are sequences of tokens; the digits of a status are tokens
\* of their own, so that "HTTP error 4" is a proper part of "HTTP error 404".
Digits(status) ==
    << ToString(status \div 100), ToString((status \div 10) % 10), ToString(status % 10) >>

\* `HTTP error ${response.status}`
HttpErrorMessage(status) == << "HTTP error " >> \o Digits(status)

\* 'HTTP error 4', the text the catch block looks for
ClientErrorMark == << "HTTP error ", "4" >>

\* String.prototype.includes
Includes(msg, part) ==
    \E i \in 1..(Len(msg) - Len(part) + 1) : SubSeq(msg, i, i + Len(part) - 1) = part

\* The statuses the remote answers with
Statuses == {200, 404, 500}

\* error.message texts the remote may put into the envelope (<<>>: none)
ServerMessages ==
    { << "Device not found" >>,
      << "upstream said: ", "HTTP error ", "4", "0", "4" >> }

\* A response body: malformed (response.json() throws), or an envelope with
\* or without error.message
Bodies ==
    { [json |-> FALSE, message |-> << >>] } \cup
    { [json |-> TRUE, message |-> m] : m \in ServerMessages \cup { << >> } }

NoError == [name |-> "undefined", message |-> << >>]

\* response.ok
ResponseOk(status) == status >= 200 /\ status <= 299

\* The error thrown in the try block for a response (lines 34-38);
\* NoError when the block returns data
ThrownFor(status, body) ==
    IF ~body.json
    THEN [name |-> "SyntaxError", message |-> << "Unexpected token" >>]
    ELSE IF ~ResponseOk(status)
    THEN [name |-> "Error",
          message |-> IF body.message # << >> THEN body.message
                      ELSE HttpErrorMessage(status)]
    ELSE NoError

\* error.message.includes('HTTP error 4')
IsClientError(error) == Includes(error.message, ClientErrorMark)

\* A test for the abort error that never finds one
IsAbortErrorNever(error) == FALSE

\* error.name === 'AbortError'
IsAbortError(error) == error.name = "AbortError"

\* A catch block that retries whatever the number of attempts made
CatchAlwaysRetry(error, armed) ==
    IF IsClientError(error)
    THEN /\ lastError' = error
         /\ rpc' = "failed"
         /\ timeoutArmed' = FALSE
         /\ UNCHANGED <<attempt, delays>>
    ELSE IF IsAbortError(error)
    THEN /\ lastError' = [name |-> "Error", message |-> << "Request timeout" >>]
         /\ rpc' = "failed"
         /\ timeoutArmed' = FALSE
         /\ UNCHANGED <<attempt, delays>>
    ELSE /\ lastError' = error
         /\ rpc' = "backoff"
         /\ delays' = Append(delays, BackoffDelay(attempt))
         /\ timeoutArmed' = armed
         /\ UNCHANGED attempt

\* The catch block, lines 41-61, and the exit of the loop, lines 64-65;
\* armed: whether the timer of line 16 is still pending when the block runs
Catch(error, armed) ==
    IF IsClientError(error)
    THEN /\ lastError' = error
         /\ rpc' = "failed"
         /\ timeoutArmed' = FALSE
         /\ UNCHANGED <<attempt, delays>>
    ELSE IF IsAbortError(error)
    THEN /\ lastError' = [name |-> "Error", message |-> << "Request timeout" >>]
         /\ rpc' = "failed"
         /\ timeoutArmed' = FALSE
         /\ UNCHANGED <<attempt, delays>>
    ELSE IF attempt < MAX_RETRIES
    THEN /\ lastError' = error
         /\ rpc' = "backoff"
         /\ delays' = Append(delays, BackoffDelay(attempt))
         /\ timeoutArmed' = armed
         /\ UNCHANGED attempt
    ELSE /\ lastError' = error
         /\ rpc' = "failed"
         /\ attempt' = attempt + 1
         /\ timeoutArmed' = FALSE
         /\ UNCHANGED delays

\* request(endpoint, options) up to the first fetch, lines 13-31
Request ==
    /\ rpc = "idle"
    /\ rpc' = "fetching"
    /\ attempt' = 1
    /\ timeoutArmed' = TRUE
    /\ UNCHANGED <<aborted, lastError, observed, delays, firedIn>>
    /\ UNCHANGED <<storeVars, appVars, dataVars, liveVars>>

\* The timer of line 16 fires
TimeoutFire ==
    /\ timeoutArmed
    /\ timeoutArmed' = FALSE
    /\ aborted' = TRUE
    /\ firedIn' = rpc
    /\ UNCHANGED <<rpc, attempt, lastError, observed, delays>>
    /\ UNCHANGED <<storeVars, appVars, dataVars, liveVars>>

\* fetch resolves with a response, lines 31-40
FetchRespond ==
    /\ rpc = "fetching"
    /\ ~aborted
    /\ \E status \in Statuses, body \in Bodies :
         /\ observed' = Append(observed, [kind |-> "response", status |-> status, body |-> body])
         /\ IF ThrownFor(status, body) = NoError
            THEN /\ rpc' = "returned"
                 /\ timeoutArmed' = FALSE
                 /\ UNCHANGED <<attempt, lastError, delays>>
            ELSE \* clearTimeout(timeout) of line 32 ran before the throw
                 Catch(ThrownFor(status, body), FALSE)
    /\ UNCHANGED <<aborted, firedIn>>
    /\ UNCHANGED <<storeVars, appVars, dataVars, liveVars>>

\* fetch rejects for a transport failure
FetchNetworkError ==
    /\ rpc = "fetching"
    /\ ~aborted
    /\ observed' = Append(observed, [kind |-> "neterr", status |-> 0,
                                     body |-> [json |-> FALSE, message |-> << >>]])
    /\ Catch([name |-> "TypeError", message |-> << "Failed to fetch" >>], timeoutArmed)
    /\ UNCHANGED <<aborted, firedIn>>
    /\ UNCHANGED <<storeVars, appVars, dataVars, liveVars>>

\* fetch rejects because the signal is aborted
FetchAborted ==
    /\ rpc = "fetching"
    /\ aborted
    /\ observed' = Append(observed, [kind |-> "abort", status |-> 0,
                                     body |-> [json |-> FALSE, message |-> << >>]])
    /\ Catch([name |-> "AbortError", message |-> << "The user aborted a request." >>], timeoutArmed)
    /\ UNCHANGED <<aborted, firedIn>>
    /\ UNCHANGED <<storeVars, appVars, dataVars, liveVars>>

\* The backoff of lines 57-59 is over: attempt++ and the next fetch
BackoffDone ==
    /\ rpc = "backoff"
    /\ rpc' = "fetching"
    /\ attempt' = attempt + 1
    /\ UNCHANGED <<timeoutArmed, aborted, lastError, observed, delays, firedIn>>
    /\ UNCHANGED <<storeVars, appVars, dataVars, liveVars>>

ReqNext ==
    \/ Request
    \/ TimeoutFire
    \/ FetchRespond
    \/ FetchNetworkError
    \/ FetchAborted
    \/ BackoffDone

(***************************************************************************)
(* StateManager                                                            *)
(* A path is the sequence of its keys (path.split('.')).  A value is a     *)
(* tree: a function from relative paths to texts, "OBJ" at an object node; *)
(* a primitive is a tree with the root alone.                              *)
(***************************************************************************)
Leaf(v) == << >> :> v

UNDEFINED == Leaf("undefined")
NULL == Leaf("null")
TypeError == Leaf("#TypeError")

IsPrefix(p, q) == Len(p) <= Len(q) /\ SubSeq(q, 1, Len(p)) = p

\* The value rooted at node p of tree t
ValueAt(t, p) ==
    [r \in { SubSeq(q, Len(p) + 1, Len(q)) : q \in { x \in DOMAIN t : IsPrefix(p, x) } }
        |-> t[p \o r]]

\* A Graft that puts nothing
GraftNowhere(t, p, v) == t

\* t with the value v put at path p, replacing what was there
Graft(t, p, v) ==
    [q \in { x \in DOMAIN t : ~IsPrefix(p, x) } \cup { p \o r : r \in DOMAIN v }
        |-> IF IsPrefix(p, q) THEN v[SubSeq(q, Len(p) + 1, Len(q))] ELSE t[q]]

IsObject(v) == v[<< >>] = "OBJ"
IsNullish(v) == v[<< >>] \in { "undefined", "null" }

\* The initial state structure, lines 8-62
StateSchema ==
    { << <<"app">>, "OBJ" >>,
      << <<"app", "initialized">>, "false" >>,
      << <<"app", "online">>, "false" >>,
      << <<"app", "lastUpdate">>, "null" >>,
      << <<"app", "error">>, "null" >>,
      << <<"devices">>, "OBJ" >>,
      << <<"devices", "pc">>, "OBJ" >>,
      << <<"devices", "pc", "status">>, "disconnected" >>,
      << <<"devices", "pc", "metrics">>, "OBJ" >>,
      << <<"devices", "pc", "metrics", "cpu">>, "null" >>,
      << <<"devices", "pc", "metrics", "ram">>, "null" >>,
      << <<"devices", "pc", "metrics", "ram_total">>, "null" >>,
      << <<"devices", "pc", "metrics", "disk">>, "null" >>,
      << <<"devices", "pc", "metrics", "disk_total">>, "null" >>,
      << <<"devices", "quest_3">>, "OBJ" >>,
      << <<"devices", "quest_3", "status">>, "disconnected" >>,
      << <<"devices", "quest_3", "metrics">>, "OBJ" >>,
      << <<"devices", "quest_3", "metrics", "cpu">>, "null" >>,
      << <<"devices", "quest_3", "metrics", "ram">>, "null" >>,
      << <<"devices", "quest_3", "metrics", "ram_total">>, "null" >>,
      << <<"devices", "quest_3", "metrics", "temp">>, "null" >>,
      << <<"devices", "quest_3", "metrics", "battery">>, "null" >>,
      << <<"ui">>, "OBJ" >>,
      << <<"ui", "graphsOpen">>, "OBJ" >>,
      << <<"ui", "graphsOpen", "pc_cpu">>, "false" >>,
      << <<"ui", "graphsOpen", "pc_ram">>, "false" >>,
      << <<"ui", "graphsOpen", "pc_disk">>, "false" >>,
      << <<"ui", "graphsOpen", "quest_cpu">>, "false" >>,
      << <<"ui", "graphsOpen", "quest_ram">>, "false" >>,
      << <<"ui", "graphsOpen", "quest_temp">>, "false" >>,
      << <<"ui", "graphsOpen", "quest_battery">>, "false" >>,
      << <<"ui", "recording">>, "OBJ" >>,
      << <<"ui", "recording", "active">>, "false" >>,
      << <<"ui", "recording", "sessionId">>, "null" >>,
      << <<"ui", "recording", "elapsed">>, "0" >>,
      << <<"ui", "recording", "startTime">>, "null" >>,
      << <<"ui", "diskModalOpen">>, "false" >>,
      << <<"data">>, "OBJ" >>,
      << <<"data", "histories">>, "OBJ" >>,
      << <<"data", "histories", "pc">>, "OBJ" >>,
      << <<"data", "histories", "pc", "cpu">>, "[]" >>,
      << <<"data", "histories", "pc", "ram">>, "[]" >>,
      << <<"data", "histories", "pc", "disk">>, "[]" >>,
      << <<"data", "histories", "quest_3">>, "OBJ" >>,
      << <<"data", "histories", "quest_3", "cpu">>, "[]" >>,
      << <<"data", "histories", "quest_3", "ram">>, "[]" >>,
      << <<"data", "histories", "quest_3", "temp">>, "[]" >>,
      << <<"data", "histories", "quest_3", "battery">>, "[]" >>,
      << <<"data", "disks">>, "[]" >> }

InitialState ==
    [p \in { << >> } \cup { e[1] : e \in StateSchema }
        |-> IF p = << >> THEN "OBJ" ELSE (CHOOSE e \in StateSchema : e[1] = p)[2]]

\* The texts that stand for string primitives, each with its length
StringLengths ==
    [connected |-> "9", disconnected |-> "12", message |-> "7", gone |-> "4", s1 |-> "2"]

IsString(v) == v[<< >>] \in DOMAIN StringLengths

\* Some of the properties every value but undefined and null inherits
PrototypeKeys == { "constructor", "toString" }
BuiltIn == Leaf("#function")

\* value[key] for a value that is neither undefined nor null: an own property
\* of an object, the length of a string, or an inherited property
Property(v, key) ==
    IF IsObject(v) /\ << key >> \in DOMAIN v THEN ValueAt(v, << key >>)
    ELSE IF IsString(v) /\ key = "length" THEN Leaf(StringLengths[v[<< >>]])
    ELSE IF key \in PrototypeKeys THEN BuiltIn
    ELSE UNDEFINED

\* value?.[key], line 76
OptionalRead(v, key) == IF IsNullish(v) THEN UNDEFINED ELSE Property(v, key)

\* The loop of lines 75-77
RECURSIVE GetFrom(_, _)
GetFrom(v, keys) ==
    IF keys = << >> THEN v ELSE GetFrom(OptionalRead(v, Head(keys)), Tail(keys))

\* !path, line 71: << >> is the absent path (null), << "" >> the empty string
Falsy(path) == path \in { << >>, << "" >> }

\* getState(path), lines 70-79
getState(t, path) == IF Falsy(path) THEN t ELSE GetFrom(t, path)

\* obj[key], lines 89 and 93: a read of a property of undefined or null throws
PlainRead(v, key) ==
    IF v = TypeError \/ IsNullish(v) THEN TypeError ELSE Property(v, key)

\* The loop of lines 88-90
RECURSIVE WalkTo(_, _)
WalkTo(v, keys) ==
    IF keys = << >> THEN v ELSE WalkTo(PlainRead(v, Head(keys)), Tail(keys))

Front(s) == SubSeq(s, 1, Len(s) - 1)
Last(s) == s[Len(s)]

\* The Set of callbacks registered at path p (empty when the Map has no such key)
SubscribersAt(subs, p) == IF p \in DOMAIN subs THEN subs[p] ELSE << >>

\* An InvokeAll that hands the old value over as the new one and the new as the old
InvokeAllSwapped(cbs, at, newValue, oldValue, path, throwers) ==
    [i \in 1..Len(cbs) |->
        [cb |-> cbs[i], at |-> at, newValue |-> oldValue, oldValue |-> newValue,
         path |-> path, threw |-> cbs[i] \in throwers]]

\* One forEach over a Set of callbacks, each call in its try/catch
\* (lines 121-127, 136-142, 148-154); throwers: the callbacks that throw
InvokeAll(cbs, at, newValue, oldValue, path, throwers) ==
    [i \in 1..Len(cbs) |->
        [cb |-> cbs[i], at |-> at, newValue |-> newValue, oldValue |-> oldValue,
         path |-> path, threw |-> cbs[i] \in throwers]]

\* The loop over the parent paths, lines 131-144, from index i on
RECURSIVE ParentCalls(_, _, _, _, _)
ParentCalls(subs, t, path, i, throwers) ==
    IF i >= Len(path) THEN << >>
    ELSE LET parentPath == SubSeq(path, 1, i)
         IN  InvokeAll(SubscribersAt(subs, parentPath), parentPath,
                       getState(t, parentPath), NULL, path, throwers)
             \o ParentCalls(subs, t, path, i + 1, throwers)

\* broadcastChange with the wildcard subscribers served first
broadcastChangeWildcardFirst(subs, t, path, newValue, oldValue, throwers) ==
    InvokeAll(SubscribersAt(subs, << "*" >>), << "*" >>, newValue, oldValue, path, throwers)
    \o InvokeAll(SubscribersAt(subs, path), path, newValue, oldValue, path, throwers)
    \o ParentCalls(subs, t, path, 1, throwers)

\* broadcastChange without the try/catch around a call: the first throw ends it
broadcastChangeNoCatch(subs, t, path, newValue, oldValue, throwers) ==
    LET all == InvokeAll(SubscribersAt(subs, path), path, newValue, oldValue, path, throwers)
               \o ParentCalls(subs, t, path, 1, throwers)
               \o InvokeAll(SubscribersAt(subs, << "*" >>), << "*" >>, newValue, oldValue,
                            path, throwers)
        thrown == { i \in 1..Len(all) : all[i].threw }
    IN  IF thrown = {} THEN all
        ELSE SubSeq(all, 1, CHOOSE i \in thrown : \A j \in thrown : i <= j)

\* broadcastChange without the loop over the parent paths
broadcastChangeNoParents(subs, t, path, newValue, oldValue, throwers) ==
    InvokeAll(SubscribersAt(subs, path), path, newValue, oldValue, path, throwers)
    \o InvokeAll(SubscribersAt(subs, << "*" >>), << "*" >>, newValue, oldValue, path, throwers)

\* broadcastChange(path, newValue, oldValue), lines 118-156: the calls it makes
broadcastChange(subs, t, path, newValue, oldValue, throwers) ==
    InvokeAll(SubscribersAt(subs, path), path, newValue, oldValue, path, throwers)
    \o ParentCalls(subs, t, path, 1, throwers)
    \o InvokeAll(SubscribersAt(subs, << "*" >>), << "*" >>, newValue, oldValue, path, throwers)

\* setState(path, value), lines 84-98: the tree, the calls, and whether it threw
setState(subs, t, path, value, throwers) ==
    LET obj == WalkTo(t, Front(path))
        oldValue == PlainRead(obj, Last(path))
    IN  IF oldValue = TypeError
        THEN [tree |-> t, calls |-> << >>, raised |-> TRUE]
        ELSE LET t2 == IF IsObject(obj) THEN Graft(t, path, value) ELSE t
             IN  [tree |-> t2,
                  calls |-> broadcastChange(subs, t2, path, value, oldValue, throwers),
                  raised |-> FALSE]

\* No setState and no getState since the latest other operation
NoSet == [path |-> << >>, value |-> UNDEFINED, raised |-> FALSE]
NoGet == [called |-> FALSE, path |-> << >>, value |-> UNDEFINED]

\* Bounds of the store's inputs
MaxHandles == 3

\* The callbacks registered; those of Throwing throw whenever they are called
Callbacks == { "cb1", "cb2" }
Throwing == { "cb2" }

\* The paths subscribed to
SubPaths ==
    { << "devices", "pc", "status" >>, << "devices", "pc" >>, << "devices" >>, << "*" >> }

\* The writes made: a path and a value
SetInputs ==
    { << << "devices", "pc", "status" >>, Leaf("connected") >>,
      << << "devices", "pc", "status" >>, Leaf("disconnected") >>,
      << << "app", "online" >>, Leaf("true") >> }

Slots == SubPaths \X Callbacks

HandleCount == LET RECURSIVE Sum(_)
                   Sum(S) == IF S = {} THEN 0
                             ELSE LET x == CHOOSE x \in S : TRUE
                                  IN  handles[x].fresh + handles[x].used + Sum(S \ {x})
               IN  Sum(Slots)

\* Set.prototype.add: a callback already in the Set keeps its place
SetAdd(cbs, cb) == IF \E i \in 1..Len(cbs) : cbs[i] = cb THEN cbs ELSE Append(cbs, cb)

\* Set.prototype.delete
SetDelete(cbs, cb) == SelectSeq(cbs, LAMBDA x : x # cb)

\* subscribe(path, callback), lines 103-113
Subscribe ==
    /\ HandleCount < MaxHandles
    /\ \E path \in SubPaths, cb \in Callbacks :
         /\ subscribers' = (path :> SetAdd(SubscribersAt(subscribers, path), cb)) @@ subscribers
         /\ handles' = [handles EXCEPT ![<<path, cb>>].fresh = @ + 1]
    /\ calls' = << >>
    /\ lastSet' = NoSet
    /\ UNCHANGED <<state, lastGet>>
    /\ UNCHANGED <<reqVars, appVars, dataVars, liveVars>>

\* The function returned by subscribe, lines 110-112; again: it was called before
Unsubscribe ==
    /\ \E path \in SubPaths, cb \in Callbacks, again \in BOOLEAN :
         /\ IF again THEN handles[<<path, cb>>].used > 0 ELSE handles[<<path, cb>>].fresh > 0
         /\ subscribers' =
                IF path \in DOMAIN subscribers
                THEN [subscribers EXCEPT ![path] = SetDelete(@, cb)]
                ELSE subscribers
         /\ handles' = IF again THEN handles
                       ELSE [handles EXCEPT ![<<path, cb>>].fresh = @ - 1,
                                            ![<<path, cb>>].used = @ + 1]
    /\ calls' = << >>
    /\ lastSet' = NoSet
    /\ UNCHANGED <<state, lastGet>>
    /\ UNCHANGED <<reqVars, appVars, dataVars, liveVars>>

\* StateManager.setState(path, value) with its broadcast, for a write of inputs
SetStateOf(inputs) ==
    /\ \E in \in inputs :
         LET path == in[1]
             value == in[2]
             r == setState(subscribers, state, path, value, Throwing)
         IN  /\ state' = r.tree
             /\ calls' = r.calls
             /\ lastSet' = [path |-> path, value |-> value, raised |-> r.raised]
    /\ lastGet' = NoGet
    /\ UNCHANGED <<subscribers, handles>>
    /\ UNCHANGED <<reqVars, appVars, dataVars, liveVars>>

SetState == SetStateOf(SetInputs)

StoreNext ==
    \/ Subscribe
    \/ Unsubscribe
    \/ SetState

\* Writes whose path does not lead to an object: below a string, below a
\* missing key (a device id the tree does not have), below null
AbsentInputs ==
    { << << "devices", "pc", "status", "x" >>, Leaf("connected") >>,
      << << "devices", "nope", "status" >>, Leaf("connected") >>,
      << << "app", "lastUpdate", "x" >>, Leaf("connected") >> }

SetAbsent == SetStateOf(AbsentInputs)

AbsentNext ==
    \/ Subscribe
    \/ Unsubscribe
    \/ SetAbsent

(***************************************************************************)
(* StateManager with callbacks that unsubscribe during a broadcast         *)
(* (SpecLive).  A behaviour u says: whenever callback u.who is called, it  *)
(* calls the function subscribe returned for callback u.cb at u.path.      *)
(***************************************************************************)
NoUnsubscribe == [who |-> "nobody", path |-> << >>, cb |-> "nobody"]

\* subscribers.get(path)?.delete(callback), line 111
Deleted(subs, path, cb) ==
    IF path \in DOMAIN subs THEN [subs EXCEPT ![path] = SetDelete(@, cb)] ELSE subs

\* The callbacks of a Set that a forEach has yet to visit
Unvisited(cbs, visited) == SelectSeq(cbs, LAMBDA x : x \notin visited)

\* A forEach that walks the Set by position, as over an array
RECURSIVE ForEachByIndex(_, _, _, _, _, _, _, _)
ForEachByIndex(subs, at, visited, newValue, oldValue, path, throwers, u) ==
    LET cbs == SubscribersAt(subs, at)
        i == Cardinality(visited) + 1
    IN  IF i > Len(cbs) THEN [subs |-> subs, calls |-> << >>]
        ELSE LET cb == cbs[i]
                 after == IF cb = u.who THEN Deleted(subs, u.path, u.cb) ELSE subs
                 rest == ForEachByIndex(after, at, visited \cup { << i, cb >> }, newValue,
                                        oldValue, path, throwers, u)
             IN  [subs |-> rest.subs,
                  calls |-> InvokeAll(<< cb >>, at, newValue, oldValue, path, throwers)
                            \o rest.calls]

\* Set.prototype.forEach over the Set of path at while its callbacks run
\* (lines 121-127, 136-142, 148-154): the callbacks are visited in insertion
\* order, and one deleted before its turn is not visited
RECURSIVE ForEachLive(_, _, _, _, _, _, _, _)
ForEachLive(subs, at, visited, newValue, oldValue, path, throwers, u) ==
    LET todo == Unvisited(SubscribersAt(subs, at), visited)
    IN  IF todo = << >> THEN [subs |-> subs, calls |-> << >>]
        ELSE LET cb == Head(todo)
                 after == IF cb = u.who THEN Deleted(subs, u.path, u.cb) ELSE subs
                 rest == ForEachLive(after, at, visited \cup { cb }, newValue, oldValue,
                                     path, throwers, u)
             IN  [subs |-> rest.subs,
                  calls |-> InvokeAll(<< cb >>, at, newValue, oldValue, path, throwers)
                            \o rest.calls]

\* The loop over the parent paths, lines 131-144, from index i on, while the
\* callbacks run
RECURSIVE ParentCallsLive(_, _, _, _, _, _)
ParentCallsLive(subs, t, path, i, throwers, u) ==
    IF i >= Len(path) THEN [subs |-> subs, calls |-> << >>]
    ELSE LET parentPath == SubSeq(path, 1, i)
             here == ForEachLive(subs, parentPath, {}, getState(t, parentPath), NULL, path,
                                 throwers, u)
             rest == ParentCallsLive(here.subs, t, path, i + 1, throwers, u)
         IN  [subs |-> rest.subs, calls |-> here.calls \o rest.calls]

\* broadcastChange(path, newValue, oldValue), lines 118-156, while the
\* callbacks run: the Map it leaves and the calls it makes
broadcastChangeLive(subs, t, path, newValue, oldValue, throwers, u) ==
    LET exact == ForEachLive(subs, path, {}, newValue, oldValue, path, throwers, u)
        parents == ParentCallsLive(exact.subs, t, path, 1, throwers, u)
        wildcard == ForEachLive(parents.subs, << "*" >>, {}, newValue, oldValue, path,
                                throwers, u)
    IN  [subs |-> wildcard.subs, calls |-> exact.calls \o parents.calls \o wildcard.calls]

\* What the callbacks do: nothing, or one of them unsubscribes itself or another
Unsubscribes ==
    { NoUnsubscribe } \cup
    { [who |-> w, path |-> p, cb |-> c] :
        w \in Callbacks, p \in { << "devices", "pc", "status" >>, << "*" >> },
        c \in Callbacks }

\* The writes made while callbacks unsubscribe
LiveInputs ==
    { << << "devices", "pc", "status" >>, Leaf("connected") >>,
      << << "devices", "pc", "status" >>, Leaf("disconnected") >> }

\* StateManager.setState(path, value), lines 84-98, with callbacks that act
\* as u says; u needs the function subscribe returned for its registration
SetStateLive ==
    /\ \E in \in LiveInputs, u \in Unsubscribes :
         LET path == in[1]
             value == in[2]
             r == setState(subscribers, state, path, value, Throwing)
             b == broadcastChangeLive(subscribers, r.tree, path, value,
                                      PlainRead(WalkTo(state, Front(path)), Last(path)),
                                      Throwing, u)
             ran == \E i \in 1..Len(b.calls) : b.calls[i].cb = u.who
             slot == << u.path, u.cb >>
         IN  /\ u # NoUnsubscribe =>
                   handles[slot].fresh + handles[slot].used > 0
             /\ state' = r.tree
             /\ subscribers' = b.subs
             /\ calls' = b.calls
             /\ lastSet' = [path |-> path, value |-> value, raised |-> r.raised]
             /\ unsubscribing' = IF ran THEN u ELSE NoUnsubscribe
             /\ handles' = IF u # NoUnsubscribe /\ ran /\ handles[slot].fresh > 0
                           THEN [handles EXCEPT ![slot].fresh = @ - 1, ![slot].used = @ + 1]
                           ELSE handles
    /\ lastGet' = NoGet
    /\ UNCHANGED <<reqVars, appVars, dataVars>>

LiveNext ==
    \/ Subscribe
    \/ SetStateLive

(***************************************************************************)
(* StateManager: getState and the helper operations (SpecTree)             *)
(***************************************************************************)
\* The texts of the values that are false in a condition
FalsyTexts == { "false", "null", "undefined", "0", "" }

\* !value
Not(v) == IF v[<< >>] \in FalsyTexts THEN Leaf("true") ELSE Leaf("false")

\* An object with no property
EmptyObject == Leaf("OBJ")

\* An object literal: the object with the properties props ([key |-> text])
ObjectOf(props) ==
    [p \in { << >> } \cup { << k >> : k \in DOMAIN props }
        |-> IF p = << >> THEN "OBJ" ELSE props[p[1]]]

\* ...value in an object literal: the own properties of an object; undefined,
\* null, a number or a boolean spread nothing
Spread(v) == IF IsObject(v) THEN v ELSE EmptyObject

\* The own keys of an object
Keys(v) == { p[1] : p \in DOMAIN v \ { << >> } }

\* { ...a, ...b } for two objects: the properties of b replace those of a
Assign(a, b) ==
    [p \in { x \in DOMAIN a : x = << >> \/ x[1] \notin Keys(b) } \cup DOMAIN b
        |-> IF p # << >> /\ p \in DOMAIN b THEN b[p] ELSE a[p]]

\* A device id or a metric name is the sequence of its pieces, so that
\* replace('_', '') has a piece to remove; Text is the string itself
RECURSIVE Text(_)
Text(tokens) == IF tokens = << >> THEN "" ELSE Head(tokens) \o Text(Tail(tokens))

\* String.prototype.replace with a text to find: the first occurrence only
ReplaceFirst(tokens, find, put) ==
    LET found == { i \in 1..Len(tokens) : tokens[i] = find }
    IN  IF found = {} THEN tokens
        ELSE LET i == CHOOSE i \in found : \A j \in found : i <= j
             IN  SubSeq(tokens, 1, i - 1) \o put \o SubSeq(tokens, i + 1, Len(tokens))

\* What a helper operation did: the tree, the calls of its broadcasts, whether
\* it threw, and the path and value of its latest setState
Done(t, cs, raised, path, value) ==
    [tree |-> t, calls |-> cs, raised |-> raised, path |-> path, value |-> value]

\* The keys of the object literal of updateDeviceMetrics, lines 169-175
MetricKeys == << "cpu", "ram", "ram_total", "temp", "battery", "disk", "disk_total" >>

\* The object literal of lines 167-176 from its i-th key on: metrics.key ??
\* current.key, where current.key is read only when metrics.key is undefined
\* or null, and throws when current is undefined or null
RECURSIVE MetricsLiteral(_, _, _, _)
MetricsLiteral(obj, metrics, current, i) ==
    IF i > Len(MetricKeys) THEN obj
    ELSE LET key == MetricKeys[i]
             given == Property(metrics, key)
             v == IF IsNullish(given) THEN PlainRead(current, key) ELSE given
         IN  IF v = TypeError THEN TypeError
             ELSE MetricsLiteral(Graft(obj, << key >>, v), metrics, current, i + 1)

\* updateDeviceMetrics(deviceId, metrics), lines 161-179
updateDeviceMetrics(subs, t, deviceId, metrics, throwers) ==
    IF metrics[<< >>] \in FalsyTexts THEN Done(t, << >>, FALSE, << >>, UNDEFINED)
    ELSE LET path == << "devices", Text(deviceId), "metrics" >>
             current == getState(t, path)
             obj == MetricsLiteral(Spread(current), metrics, current, 1)
             r1 == setState(subs, t, path, obj, throwers)
             status == << "devices", Text(deviceId), "status" >>
             r2 == setState(subs, r1.tree, status, Leaf("connected"), throwers)
         IN  IF obj = TypeError THEN Done(t, << >>, TRUE, << >>, UNDEFINED)
             ELSE IF r1.raised THEN Done(t, << >>, TRUE, path, obj)
             ELSE Done(r2.tree, r1.calls \o r2.calls, r2.raised, status, Leaf("connected"))

\* updateDeviceStatus(deviceId, status), lines 184-186
updateDeviceStatus(subs, t, deviceId, status, throwers) ==
    LET path == << "devices", Text(deviceId), "status" >>
        r == setState(subs, t, path, status, throwers)
    IN  Done(r.tree, r.calls, r.raised, path, status)

\* toggleGraph(deviceId, metric), lines 191-197
toggleGraph(subs, t, deviceId, metric, throwers) ==
    LET key == Text(ReplaceFirst(deviceId, "_", << >>)) \o "_" \o Text(metric)
        path == << "ui", "graphsOpen", key >>
        current == getState(t, path)
        r == setState(subs, t, path, Not(current), throwers)
    IN  Done(r.tree, r.calls, r.raised, path, Not(current))

\* updateRecording(recording), lines 202-205
updateRecording(subs, t, recording, throwers) ==
    LET path == << "ui", "recording" >>
        current == getState(t, path)
        value == Assign(Spread(current), Spread(recording))
        r == setState(subs, t, path, value, throwers)
    IN  Done(r.tree, r.calls, r.raised, path, value)

\* updateHistory(deviceId, metric, data), lines 210-212
updateHistory(subs, t, deviceId, metric, data, throwers) ==
    LET path == << "data", "histories", Text(deviceId), Text(metric) >>
        r == setState(subs, t, path, data, throwers)
    IN  Done(r.tree, r.calls, r.raised, path, data)

\* updateDisks(disks), lines 217-219
updateDisks(subs, t, disks, throwers) ==
    LET r == setState(subs, t, << "data", "disks" >>, disks, throwers)
    IN  Done(r.tree, r.calls, r.raised, << "data", "disks" >>, disks)

\* The device ids and metric names the callers pass
DeviceIds == { << "pc" >>, << "quest", "_", "3" >> }
MetricNames == { << "cpu" >> }

\* The pc member of the metrics payload, as Dashboard.updateMetrics passes it
\* (dashboard.js line 276), or none
MetricsInputs ==
    { ObjectOf([cpu |-> "42", ram |-> "8", ram_total |-> "16", disk |-> "100",
                disk_total |-> "500"]),
      UNDEFINED }

\* The recording status, as app.js lines 77-82 pass it
RecordingInputs ==
    { ObjectOf([active |-> "true", sessionId |-> "s1", elapsed |-> "0", startTime |-> "now"]) }

\* The leaves written directly, with values of the kinds the callers write
TreeInputs ==
    { << << "app", "error" >>, Leaf("message") >>,
      << << "app", "error" >>, NULL >> }

\* The paths read: none, the empty string, a leaf, a container, a missing
\* key, a key below null, and keys below a string and an object
GetPaths ==
    { << >>, << "" >>,
      << "devices", "pc", "status" >>,
      << "ui", "recording" >>,
      << "devices", "nope", "status" >>,
      << "app", "lastUpdate", "x" >>,
      << "devices", "pc", "status", "length" >>,
      << "app", "constructor" >> }

\* A helper operation's outcome becomes the state
Store(r) ==
    /\ state' = r.tree
    /\ calls' = r.calls
    /\ lastSet' = [path |-> r.path, value |-> r.value, raised |-> r.raised]
    /\ lastGet' = NoGet
    /\ UNCHANGED <<subscribers, handles>>
    /\ UNCHANGED <<reqVars, appVars, dataVars, liveVars>>

SetLeaf == SetStateOf(TreeInputs)

UpdateDeviceMetrics ==
    \E metrics \in MetricsInputs :
        Store(updateDeviceMetrics(subscribers, state, << "pc" >>, metrics, Throwing))

UpdateDeviceStatus ==
    Store(updateDeviceStatus(subscribers, state, << "quest", "_", "3" >>, Leaf("connected"),
                             Throwing))

ToggleGraph ==
    \E deviceId \in DeviceIds, metric \in MetricNames :
        Store(toggleGraph(subscribers, state, deviceId, metric, Throwing))

UpdateRecording ==
    \E recording \in RecordingInputs :
        Store(updateRecording(subscribers, state, recording, Throwing))

UpdateHistory ==
    Store(updateHistory(subscribers, state, << "pc" >>, << "cpu" >>, Leaf("[1]"), Throwing))

UpdateDisks ==
    Store(updateDisks(subscribers, state, Leaf("[C:]"), Throwing))

\* StateManager.getState(path)
GetState ==
    /\ \E path \in GetPaths :
         lastGet' = [called |-> TRUE, path |-> path, value |-> getState(state, path)]
    /\ calls' = << >>
    /\ lastSet' = NoSet
    /\ UNCHANGED <<state, subscribers, handles>>
    /\ UNCHANGED <<reqVars, appVars, dataVars, liveVars>>

TreeNext ==
    \/ SetLeaf
    \/ UpdateDeviceMetrics
    \/ UpdateDeviceStatus
    \/ ToggleGraph
    \/ UpdateRecording
    \/ UpdateHistory
    \/ UpdateDisks
    \/ GetState

(***************************************************************************)
(* App: the poll orchestrator                                              *)
(* A request of APIClient is one step here: it resolves with an envelope   *)
(* that has success and data ("ok"), resolves with another envelope        *)
(* ("refused"), or rejects ("error").                                      *)
(***************************************************************************)
Outcomes == { "ok", "refused", "error" }

\* Bounds of the orchestrator's runs
MaxBootFailures == 2
MaxTasks == 1
MaxPollCounter == 6
MaxReconnects == 2

\* The await points: <<the activation, the request it waits for>>
AllTasks ==
    { << "init", pc >> : pc \in { "health", "devices", "connection", "events", "metrics",
                                  "confirm", "network", "storage", "recording" } }
    \cup { << "slow", pc >> : pc \in { "metrics", "confirm", "network", "storage" } }
    \cup { << "fast", pc >> : pc \in { "devices", "connection", "events" } }
    \cup { << "reconnect", "health" >> }

Waiting(t) == tasks[t] > 0

Without(b, t) == [b EXCEPT ![t] = @ - 1]
With(b, t) == [b EXCEPT ![t] = @ + 1]

\* t has its response and goes on to wait at pc next ("done": it returns)
Moved(t, next) ==
    IF next = "done" THEN Without(tasks, t) ELSE With(Without(tasks, t), << t[1], next >>)

StreamTasks ==
    LET RECURSIVE Sum(_)
        Sum(S) == IF S = {} THEN 0
                  ELSE LET x == CHOOSE x \in S : TRUE IN tasks[x] + Sum(S \ {x})
    IN  Sum({ t \in AllTasks : t[1] \in { "slow", "fast" } })

\* StateManager.setState(path, value) as the orchestrator calls it
Written(t, path, text) == setState(subscribers, t, path, Leaf(text), {}).tree

\* The five variables of the poller as one record
Poller ==
    [pollTimer |-> pollTimer, devicePollTimer |-> devicePollTimer,
     isPolling |-> isPolling, liveSlow |-> liveSlow, liveFast |-> liveFast]

\* A startPolling that sets no timer
startPollingNever(p) == p

\* A startPolling without the test of isPolling
startPollingAgain(p) ==
    [pollTimer |-> TRUE, devicePollTimer |-> TRUE, isPolling |-> TRUE,
     liveSlow |-> p.liveSlow + 1, liveFast |-> p.liveFast + 1]

\* startPolling(), lines 90-113
startPolling(p) ==
    IF p.isPolling THEN p
    ELSE [pollTimer |-> TRUE, devicePollTimer |-> TRUE, isPolling |-> TRUE,
          liveSlow |-> p.liveSlow + 1, liveFast |-> p.liveFast + 1]

\* stopPolling(), lines 115-127
stopPolling(p) ==
    [pollTimer |-> FALSE, devicePollTimer |-> FALSE, isPolling |-> FALSE,
     liveSlow |-> IF p.pollTimer THEN p.liveSlow - 1 ELSE p.liveSlow,
     liveFast |-> IF p.devicePollTimer THEN p.liveFast - 1 ELSE p.liveFast]

SetPoller(p) ==
    /\ pollTimer' = p.pollTimer
    /\ devicePollTimer' = p.devicePollTimer
    /\ isPolling' = p.isPolling
    /\ liveSlow' = p.liveSlow
    /\ liveFast' = p.liveFast

\* What the rest of the orchestrator leaves alone
HistoryButSwallowed ==
    UNCHANGED <<bootProbeOk, initialFetch, dataRequested, offlineHold, reconnectResult>>

\* A poll of proc ended with outcome inside a catch block that does nothing
Swallow(proc, outcome) ==
    swallowed' = (swallowed \/ (proc \in { "fast", "slow" } /\ outcome = "error"))

OtherUnchanged ==
    UNCHANGED <<reqVars, subscribers, handles, calls, lastSet, lastGet, dataVars, liveVars>>

StatusPath(deviceId) == << "devices", Text(deviceId), "status" >>

\* The callbacks of setupStateSubscriptions with the paths they are
\* subscribed to; n tells the closures of one Dashboard.init from another's
StatusCallback(deviceId, n) == "status:" \o Text(deviceId) \o "#" \o ToString(n)
RecordingCallback(n) == "recording#" \o ToString(n)

DashboardInits == Len(SubscribersAt(subscribers, << "ui", "recording" >>))

\* subscribe(path, callback) on the Map subs, lines 103-108
Subscribed(subs, path, cb) == (path :> SetAdd(SubscribersAt(subs, path), cb)) @@ subs

\* setupStateSubscriptions(), dashboard.js lines 55-70: three new closures
setupStateSubscriptions(subs) ==
    LET n == Len(SubscribersAt(subs, << "ui", "recording" >>)) + 1
    IN  Subscribed(Subscribed(Subscribed(subs,
                                         StatusPath(<< "pc" >>),
                                         StatusCallback(<< "pc" >>, n)),
                              StatusPath(<< "quest", "_", "3" >>),
                              StatusCallback(<< "quest", "_", "3" >>, n)),
                   << "ui", "recording" >>, RecordingCallback(n))

\* init() up to its first await, lines 15-21: Dashboard.init() and the health
\* probe.  Dashboard.init's loadSystemInfo sends nothing: APIClient has no
\* getDeviceInfo, the call throws inside its try block.
InitCall ==
    /\ tasks' = With(tasks, << "init", "health" >>)
    /\ subscribers' = setupStateSubscriptions(subscribers)
    /\ UNCHANGED <<pollerVars, pollCounter, reconnectTimers, state, bootFailures,
                   shutdownDone, bootProbeOk, initialFetch, dataRequested, offlineHold,
                   reconnectResult, swallowed>>
    /\ UNCHANGED <<reqVars, handles, calls, lastSet, lastGet, dataVars, liveVars>>

\* DOM ready: App.init(), lines 635-639
DomReady ==
    /\ ~started
    /\ started' = TRUE
    /\ UNCHANGED bootRetryTimers
    /\ InitCall

\* The timer of line 38 fires: init() again
BootRetryFire ==
    /\ bootRetryTimers > 0
    /\ bootRetryTimers' = bootRetryTimers - 1
    /\ UNCHANGED started
    /\ InitCall

\* A probe of init whose failure schedules no further init
BootProbeDoneNoRetry ==
    /\ Waiting(<< "init", "health" >>)
    /\ \E outcome \in Outcomes :
         IF outcome = "ok"
         THEN /\ state' = Written(state, << "app", "online" >>, "true")
              /\ tasks' = Moved(<< "init", "health" >>, "devices")
              /\ bootProbeOk' = TRUE
              /\ initialFetch' = "running"
              /\ dataRequested' = TRUE
              /\ UNCHANGED <<bootRetryTimers, bootFailures>>
         ELSE /\ bootFailures < MaxBootFailures
              /\ bootFailures' = bootFailures + 1
              /\ tasks' = Moved(<< "init", "health" >>, "done")
              /\ UNCHANGED <<state, bootProbeOk, initialFetch, dataRequested, bootRetryTimers>>
    /\ UNCHANGED <<pollerVars, pollCounter, reconnectTimers, started, shutdownDone,
                   offlineHold, reconnectResult, swallowed>>
    /\ OtherUnchanged

\* The probe of init resolved, lines 21-39 and 42-58
BootProbeDone ==
    /\ Waiting(<< "init", "health" >>)
    /\ \E outcome \in Outcomes :
         IF outcome = "ok"
         THEN /\ state' = Written(state, << "app", "online" >>, "true")
              /\ tasks' = Moved(<< "init", "health" >>, "devices")
              /\ bootProbeOk' = TRUE
              /\ initialFetch' = "running"
              /\ dataRequested' = TRUE
              /\ UNCHANGED <<bootRetryTimers, bootFailures>>
         ELSE /\ bootFailures < MaxBootFailures
              /\ bootFailures' = bootFailures + 1
              /\ bootRetryTimers' = bootRetryTimers + 1
              /\ tasks' = Moved(<< "init", "health" >>, "done")
              /\ UNCHANGED <<state, bootProbeOk, initialFetch, dataRequested>>
    /\ UNCHANGED <<pollerVars, pollCounter, reconnectTimers, started, shutdownDone,
                   offlineHold, reconnectResult, swallowed>>
    /\ OtherUnchanged

\* The end of init after fetchInitialData, lines 26-34
InitFinish(t) ==
    /\ SetPoller(startPolling(Poller))
    /\ state' = Written(state, << "app", "initialized" >>, "true")
    /\ tasks' = Moved(t, "done")
    /\ initialFetch' = "done"

\* getDevices of fetchInitialData resolved, lines 59-70; a rejection leaves
\* fetchInitialData through its catch, line 85
InitialDevicesDone ==
    /\ Waiting(<< "init", "devices" >>)
    /\ \E outcome \in Outcomes :
         IF outcome = "error"
         THEN InitFinish(<< "init", "devices" >>)
         ELSE /\ tasks' = Moved(<< "init", "devices" >>, "connection")
              /\ UNCHANGED <<pollerVars, state, initialFetch>>
    /\ UNCHANGED <<pollCounter, reconnectTimers, bootRetryTimers, started, bootFailures,
                   shutdownDone, bootProbeOk, dataRequested, offlineHold, reconnectResult,
                   swallowed>>
    /\ OtherUnchanged

\* getDevices of pollDeviceStatus resolved, lines 133-151
DeviceStatusDone ==
    /\ Waiting(<< "fast", "devices" >>)
    /\ \E outcome \in Outcomes :
         /\ tasks' = Moved(<< "fast", "devices" >>,
                           IF outcome = "error" THEN "done" ELSE "connection")
         /\ Swallow("fast", outcome)
    /\ HistoryButSwallowed
    /\ UNCHANGED <<pollerVars, pollCounter, reconnectTimers, bootRetryTimers, state, started,
                   bootFailures, shutdownDone>>
    /\ OtherUnchanged

\* getConnectionStatus of pollConnectionStatus resolved, lines 157-166
ConnectionStatusDone ==
    /\ \E proc \in { "init", "fast" }, outcome \in Outcomes :
         /\ Waiting(<< proc, "connection" >>)
         /\ tasks' = Moved(<< proc, "connection" >>,
                           IF outcome # "error" THEN "events"
                           ELSE IF proc = "init" THEN "metrics" ELSE "done")
         /\ Swallow(proc, outcome)
    /\ HistoryButSwallowed
    /\ UNCHANGED <<pollerVars, pollCounter, reconnectTimers, bootRetryTimers, state, started,
                   bootFailures, shutdownDone>>
    /\ OtherUnchanged

\* getConnectionEvents of pollConnectionEvents resolved, lines 522-533
ConnectionEventsDone ==
    /\ \E proc \in { "init", "fast" }, outcome \in Outcomes :
         /\ Waiting(<< proc, "events" >>)
         /\ tasks' = Moved(<< proc, "events" >>, IF proc = "init" THEN "metrics" ELSE "done")
         /\ Swallow(proc, outcome)
    /\ HistoryButSwallowed
    /\ UNCHANGED <<pollerVars, pollCounter, reconnectTimers, bootRetryTimers, state, started,
                   bootFailures, shutdownDone>>
    /\ OtherUnchanged

\* A pollMetrics that reports an envelope without success as an error
MetricsDoneRefusedError ==
    /\ \E proc \in { "init", "slow" }, outcome \in Outcomes :
         /\ Waiting(<< proc, "metrics" >>)
         /\ CASE outcome = "ok" ->
                   /\ state' = Written(Written(state, << "app", "lastUpdate" >>, "now"),
                                       << "app", "error" >>, "null")
                   /\ tasks' = Moved(<< proc, "metrics" >>, "network")
              [] outcome = "refused" ->
                   /\ state' = Written(state, << "app", "error" >>, "message")
                   /\ tasks' = Moved(<< proc, "metrics" >>, "network")
              [] outcome = "error" ->
                   /\ state' = Written(state, << "app", "error" >>, "message")
                   /\ tasks' = Moved(<< proc, "metrics" >>, "confirm")
    /\ UNCHANGED <<pollerVars, pollCounter, reconnectTimers, bootRetryTimers, started,
                   bootFailures, shutdownDone, historyVars>>
    /\ OtherUnchanged

\* getCurrentMetrics of pollMetrics resolved, lines 172-183
MetricsDone ==
    /\ \E proc \in { "init", "slow" }, outcome \in Outcomes :
         /\ Waiting(<< proc, "metrics" >>)
         /\ CASE outcome = "ok" ->
                   /\ state' = Written(Written(state, << "app", "lastUpdate" >>, "now"),
                                       << "app", "error" >>, "null")
                   /\ tasks' = Moved(<< proc, "metrics" >>, "network")
              [] outcome = "refused" ->
                   /\ tasks' = Moved(<< proc, "metrics" >>, "network")
                   /\ UNCHANGED state
              [] outcome = "error" ->
                   /\ state' = Written(state, << "app", "error" >>, "message")
                   /\ tasks' = Moved(<< proc, "metrics" >>, "confirm")
    /\ UNCHANGED <<pollerVars, pollCounter, reconnectTimers, bootRetryTimers, started,
                   bootFailures, shutdownDone, historyVars>>
    /\ OtherUnchanged

\* A pollMetrics that schedules the reconnect probe whatever its probe said
ConfirmProbeDoneRescheduling ==
    /\ \E proc \in { "init", "slow" }, outcome \in Outcomes :
         /\ Waiting(<< proc, "confirm" >>)
         /\ tasks' = Moved(<< proc, "confirm" >>, "network")
         /\ reconnectTimers + tasks[<< "reconnect", "health" >>] < MaxReconnects
         /\ reconnectTimers' = reconnectTimers + 1
         /\ IF outcome = "ok"
            THEN /\ state' = Written(state, << "app", "online" >>, "true")
                 /\ UNCHANGED <<pollerVars, offlineHold>>
            ELSE /\ state' = Written(state, << "app", "online" >>, "false")
                 /\ SetPoller(stopPolling(Poller))
                 /\ offlineHold' = TRUE
    /\ UNCHANGED <<pollCounter, bootRetryTimers, started, bootFailures, shutdownDone,
                   bootProbeOk, initialFetch, dataRequested, reconnectResult, swallowed>>
    /\ OtherUnchanged

\* The probe of pollMetrics' catch block resolved, lines 183-197
ConfirmProbeDone ==
    /\ \E proc \in { "init", "slow" }, outcome \in Outcomes :
         /\ Waiting(<< proc, "confirm" >>)
         /\ tasks' = Moved(<< proc, "confirm" >>, "network")
         /\ IF outcome = "ok"
            THEN /\ state' = Written(state, << "app", "online" >>, "true")
                 /\ UNCHANGED <<pollerVars, reconnectTimers, offlineHold>>
            ELSE /\ reconnectTimers + tasks[<< "reconnect", "health" >>] < MaxReconnects
                 /\ state' = Written(state, << "app", "online" >>, "false")
                 /\ SetPoller(stopPolling(Poller))
                 /\ reconnectTimers' = reconnectTimers + 1
                 /\ offlineHold' = TRUE
    /\ UNCHANGED <<pollCounter, bootRetryTimers, started, bootFailures, shutdownDone,
                   bootProbeOk, initialFetch, dataRequested, reconnectResult, swallowed>>
    /\ OtherUnchanged

\* A slow stream that polls the storage in every cycle
NetworkStatsDoneEveryCycle ==
    /\ \E proc \in { "init", "slow" }, outcome \in Outcomes :
         /\ Waiting(<< proc, "network" >>)
         /\ IF proc = "init"
            THEN /\ tasks' = Moved(<< proc, "network" >>, "storage")
                 /\ UNCHANGED pollCounter
            ELSE /\ pollCounter' = pollCounter + 1
                 /\ tasks' = Moved(<< proc, "network" >>, "storage")
         /\ Swallow(proc, outcome)
    /\ HistoryButSwallowed
    /\ UNCHANGED <<pollerVars, reconnectTimers, bootRetryTimers, state, started,
                   bootFailures, shutdownDone>>
    /\ OtherUnchanged

\* getNetworkStats of pollNetworkStats resolved, lines 204-211; in the slow
\* stream the counter and the storage poll follow, lines 103-106
NetworkStatsDone ==
    /\ \E proc \in { "init", "slow" }, outcome \in Outcomes :
         /\ Waiting(<< proc, "network" >>)
         /\ IF proc = "init"
            THEN /\ tasks' = Moved(<< proc, "network" >>, "storage")
                 /\ UNCHANGED pollCounter
            ELSE /\ pollCounter' = pollCounter + 1
                 /\ tasks' = Moved(<< proc, "network" >>,
                                   IF (pollCounter + 1) % 6 = 0 THEN "storage" ELSE "done")
         /\ Swallow(proc, outcome)
    /\ HistoryButSwallowed
    /\ UNCHANGED <<pollerVars, reconnectTimers, bootRetryTimers, state, started,
                   bootFailures, shutdownDone>>
    /\ OtherUnchanged

\* A pollQuestStorage whose catch block goes on to the health probe of pollMetrics
StorageDoneProbing ==
    /\ \E proc \in { "init", "slow" }, outcome \in Outcomes :
         /\ Waiting(<< proc, "storage" >>)
         /\ tasks' = Moved(<< proc, "storage" >>,
                           IF outcome = "error" THEN "confirm"
                           ELSE IF proc = "init" THEN "recording" ELSE "done")
         /\ Swallow(proc, outcome)
    /\ HistoryButSwallowed
    /\ UNCHANGED <<pollerVars, pollCounter, reconnectTimers, bootRetryTimers, state, started,
                   bootFailures, shutdownDone>>
    /\ OtherUnchanged

\* getQuestStorage of pollQuestStorage resolved, lines 217-224
StorageDone ==
    /\ \E proc \in { "init", "slow" }, outcome \in Outcomes :
         /\ Waiting(<< proc, "storage" >>)
         /\ tasks' = Moved(<< proc, "storage" >>, IF proc = "init" THEN "recording" ELSE "done")
         /\ Swallow(proc, outcome)
    /\ HistoryButSwallowed
    /\ UNCHANGED <<pollerVars, pollCounter, reconnectTimers, bootRetryTimers, state, started,
                   bootFailures, shutdownDone>>
    /\ OtherUnchanged

\* getRecordingStatus of fetchInitialData resolved, lines 75-87, and the rest of init
RecordingStatusDone ==
    /\ Waiting(<< "init", "recording" >>)
    /\ InitFinish(<< "init", "recording" >>)
    /\ UNCHANGED <<pollCounter, reconnectTimers, bootRetryTimers, started, bootFailures,
                   shutdownDone, bootProbeOk, dataRequested, offlineHold, reconnectResult,
                   swallowed>>
    /\ OtherUnchanged

\* The interval timer of line 98 fires
SlowTick ==
    /\ liveSlow > 0
    /\ StreamTasks < MaxTasks
    /\ pollCounter < MaxPollCounter
    /\ tasks' = With(tasks, << "slow", "metrics" >>)
    /\ UNCHANGED <<pollerVars, pollCounter, reconnectTimers, bootRetryTimers, state, started,
                   bootFailures, shutdownDone, historyVars>>
    /\ OtherUnchanged

\* The interval timer of line 110 fires
FastTick ==
    /\ liveFast > 0
    /\ StreamTasks < MaxTasks
    /\ tasks' = With(tasks, << "fast", "devices" >>)
    /\ UNCHANGED <<pollerVars, pollCounter, reconnectTimers, bootRetryTimers, state, started,
                   bootFailures, shutdownDone, historyVars>>
    /\ OtherUnchanged

\* The timer of line 190 fires: the reconnect probe is sent
ReconnectFire ==
    /\ reconnectTimers > 0
    /\ reconnectTimers' = reconnectTimers - 1
    /\ tasks' = With(tasks, << "reconnect", "health" >>)
    /\ UNCHANGED <<pollerVars, pollCounter, bootRetryTimers, state, started,
                   bootFailures, shutdownDone, historyVars>>
    /\ OtherUnchanged

\* A reconnect probe whose failure marks the system offline once more
ReconnectProbeDoneMarking ==
    /\ Waiting(<< "reconnect", "health" >>)
    /\ tasks' = Moved(<< "reconnect", "health" >>, "done")
    /\ \E outcome \in Outcomes :
         IF outcome = "ok"
         THEN /\ state' = Written(state, << "app", "online" >>, "true")
              /\ SetPoller(startPolling(Poller))
              /\ offlineHold' = FALSE
              /\ reconnectResult' = "ok"
         ELSE /\ state' = Written(state, << "app", "online" >>, "false")
              /\ reconnectResult' = "failed"
              /\ UNCHANGED <<pollerVars, offlineHold>>
    /\ UNCHANGED <<pollCounter, reconnectTimers, bootRetryTimers, started, bootFailures,
                   shutdownDone, bootProbeOk, initialFetch, dataRequested, swallowed>>
    /\ OtherUnchanged

\* The reconnect probe resolved, lines 191-195
ReconnectProbeDone ==
    /\ Waiting(<< "reconnect", "health" >>)
    /\ tasks' = Moved(<< "reconnect", "health" >>, "done")
    /\ \E outcome \in Outcomes :
         IF outcome = "ok"
         THEN /\ state' = Written(state, << "app", "online" >>, "true")
              /\ SetPoller(startPolling(Poller))
              /\ offlineHold' = FALSE
              /\ reconnectResult' = "ok"
         ELSE /\ reconnectResult' = "failed"
              /\ UNCHANGED <<state, pollerVars, offlineHold>>
    /\ UNCHANGED <<pollCounter, reconnectTimers, bootRetryTimers, started, bootFailures,
                   shutdownDone, bootProbeOk, initialFetch, dataRequested, swallowed>>
    /\ OtherUnchanged

\* shutdown(), lines 243-248
Shutdown ==
    /\ started
    /\ ~shutdownDone
    /\ shutdownDone' = TRUE
    /\ SetPoller(stopPolling(Poller))
    /\ UNCHANGED <<pollCounter, reconnectTimers, bootRetryTimers, tasks, state, started,
                   bootFailures, historyVars>>
    /\ OtherUnchanged

AppNext ==
    \/ DomReady
    \/ BootRetryFire
    \/ BootProbeDone
    \/ InitialDevicesDone
    \/ DeviceStatusDone
    \/ ConnectionStatusDone
    \/ ConnectionEventsDone
    \/ MetricsDone
    \/ ConfirmProbeDone
    \/ NetworkStatsDone
    \/ StorageDone
    \/ RecordingStatusDone
    \/ SlowTick
    \/ FastTick
    \/ ReconnectFire
    \/ ReconnectProbeDone
    \/ Shutdown

(***************************************************************************)
(* The handlers of the responses (SpecData): what fetchInitialData and the *)
(* polls do with a successful response.  An effect is the tree, the        *)
(* subscriber calls, the setState calls and the direct calls of the        *)
(* dashboard's status handlers made so far.                                *)
(***************************************************************************)
MaxIssued == 2
MaxDashboardInits == 2

Effect(t) == [tree |-> t, calls |-> << >>, writes |-> << >>, ui |-> << >>]

\* A helper operation of the store ran: r is its outcome, ws the sets it made
Did(e, r, ws) ==
    [tree |-> r.tree, calls |-> e.calls \o r.calls, writes |-> e.writes \o ws, ui |-> e.ui]

\* The orchestrator called Dashboard.fn(...) for device
Called(e, fn, device) ==
    [e EXCEPT !.ui = Append(@, [fn |-> fn, deviceId |-> Text(device.id),
                                status |-> device.status])]

\* The callback of forEach in fetchInitialData, lines 61-67
InitialDevice(subs, e, device) ==
    LET r == updateDeviceStatus(subs, e.tree, device.id, Leaf(device.status), {})
        e1 == Did(e, r, << [path |-> r.path, value |-> r.value] >>)
        e2 == Called(e1, "updateDeviceStatusUI", device)
    IN  IF Text(device.id) = "quest_3" THEN Called(e2, "updateQuestCardState", device)
        ELSE e2

\* A callback of pollDeviceStatus that does not compare with the stored status
PolledDeviceAlways(subs, e, device) == InitialDevice(subs, e, device)

\* The callback of forEach in pollDeviceStatus, lines 135-144
PolledDevice(subs, e, device) ==
    LET currentStatus == getState(e.tree, StatusPath(device.id))
        r == updateDeviceStatus(subs, e.tree, device.id, Leaf(device.status), {})
        e1 == Did(e, r, << [path |-> r.path, value |-> r.value] >>)
        e2 == Called(e1, "updateDeviceStatusUI", device)
    IN  IF currentStatus # Leaf(device.status)
        THEN IF Text(device.id) = "quest_3"
             THEN Called(e2, "updateQuestCardState", device)
             ELSE e2
        ELSE e

\* devices.forEach(...), lines 61 and 135
RECURSIVE ForEachDevice(_, _, _, _)
ForEachDevice(subs, e, devices, polled) ==
    IF devices = << >> THEN e
    ELSE ForEachDevice(subs,
                       IF polled THEN PolledDevice(subs, e, Head(devices))
                       ELSE InitialDevice(subs, e, Head(devices)),
                       Tail(devices), polled)

\* StateManager.updateDeviceMetrics as the dashboard calls it, with its two sets
DeviceMetrics(subs, e, deviceId, metrics) ==
    LET r == updateDeviceMetrics(subs, e.tree, deviceId, metrics, {})
        path == << "devices", Text(deviceId), "metrics" >>
    IN  Did(e, r, << [path |-> path, value |-> getState(r.tree, path)],
                     [path |-> StatusPath(deviceId), value |-> Leaf("connected")] >>)

\* StateManager.updateDeviceStatus as the dashboard calls it
DeviceStatus(subs, e, deviceId, status) ==
    LET r == updateDeviceStatus(subs, e.tree, deviceId, Leaf(status), {})
    IN  Did(e, r, << [path |-> r.path, value |-> r.value] >>)

\* Dashboard.updateMetrics(data), dashboard.js lines 271-303: the store part
updateMetrics(subs, e, data) ==
    LET e1 == IF data.pc[<< >>] \in FalsyTexts THEN e
              ELSE DeviceMetrics(subs, e, << "pc" >>, data.pc)
    IN  IF data.quest_3[<< >>] \in FalsyTexts
        THEN DeviceStatus(subs, e1, << "quest", "_", "3" >>, "disconnected")
        ELSE DeviceStatus(subs,
                          DeviceMetrics(subs, e1, << "quest", "_", "3" >>, data.quest_3),
                          << "quest", "_", "3" >>, "connected")

\* StateManager.setState(path, value) as the orchestrator calls it, logged
Set(subs, e, path, value) ==
    LET r == setState(subs, e.tree, path, value, {})
    IN  Did(e, r, << [path |-> path, value |-> value] >>)

\* A handler of the metrics response that keeps what the first response brought
pollMetricsResponseKeepFirst(subs, e, data) ==
    IF getState(e.tree, << "app", "lastUpdate" >>) # NULL THEN e
    ELSE Set(subs, Set(subs, updateMetrics(subs, e, data),
                       << "app", "lastUpdate" >>, Leaf("now")),
             << "app", "error" >>, NULL)

\* pollMetrics with a successful response, app.js lines 173-177
pollMetricsResponse(subs, e, data) ==
    Set(subs, Set(subs, updateMetrics(subs, e, data),
                  << "app", "lastUpdate" >>, Leaf("now")),
        << "app", "error" >>, NULL)

\* Dashboard.updateNetworkStats(data), dashboard.js lines 310-341: it writes
\* into the document only
updateNetworkStats(subs, e, data) == e

\* Dashboard.updateQuestStorage(stats), dashboard.js lines 345-373: it writes
\* into the document only
updateQuestStorage(subs, e, stats) == e

\* Dashboard.showOnlineState(), dashboard.js lines 816-819: the store part
showOnlineState(subs, e) == Set(subs, e, << "app", "online" >>, Leaf("true"))

\* A checkBackendHealth that takes every body for a success
checkBackendHealthAnyBody(subs, e, response) ==
    IF response.kind = "rejected"
    THEN [effect |-> e, returned |-> "false"]
    ELSE [effect |-> showOnlineState(subs, e), returned |-> "true"]

\* checkBackendHealth(), app.js lines 42-54, for what getHealth ended with:
\* a rejection, the body null (response.success throws inside the try
\* block), or an envelope with its success
checkBackendHealth(subs, e, response) ==
    IF response.kind \in { "rejected", "null" }
    THEN [effect |-> e, returned |-> "false"]
    ELSE IF response.success \notin FalsyTexts
    THEN [effect |-> showOnlineState(subs, e), returned |-> "true"]
    ELSE [effect |-> e, returned |-> "false"]

\* What getHealth ends with
HealthResponses ==
    { [kind |-> "rejected", success |-> "undefined"],
      [kind |-> "null", success |-> "undefined"] }
    \cup { [kind |-> "body", success |-> v] : v \in { "true", "false", "undefined" } }

\* The device lists the remote answers with
DeviceStatuses == { "connected", "disconnected" }
DeviceLists ==
    { << [id |-> << "pc" >>, status |-> a], [id |-> << "quest", "_", "3" >>, status |-> b] >> :
        a \in DeviceStatuses, b \in DeviceStatuses }

\* The metrics payloads the remote answers with
MetricsPayloads ==
    { [pc |-> ObjectOf([cpu |-> c, ram |-> "8", ram_total |-> "16"]), quest_3 |-> q] :
        c \in { "42", "43" },
        q \in { UNDEFINED, ObjectOf([cpu |-> "7", battery |-> "80"]) } }

NoPayload == [pc |-> UNDEFINED, quest_3 |-> UNDEFINED]
NoProbe == [response |-> [kind |-> "none", success |-> "undefined"], returned |-> "none"]
NoResponse == [op |-> "none", devices |-> << >>, data |-> NoPayload, probe |-> NoProbe]

\* An effect becomes the state
Apply(e) ==
    /\ state' = e.tree
    /\ calls' = e.calls
    /\ writes' = e.writes
    /\ uiCalls' = e.ui
    /\ UNCHANGED <<subscribers, handles, lastSet, lastGet>>
    /\ UNCHANGED <<reqVars, appVars, liveVars>>

\* Dashboard.init() -> setupStateSubscriptions(), dashboard.js lines 55-70
DashboardInit ==
    /\ DashboardInits < MaxDashboardInits
    /\ subscribers' = setupStateSubscriptions(subscribers)
    /\ handled' = NoResponse
    /\ calls' = << >>
    /\ writes' = << >>
    /\ uiCalls' = << >>
    /\ UNCHANGED <<state, handles, lastSet, lastGet, inflight, issued, processed>>
    /\ UNCHANGED <<reqVars, appVars, liveVars>>

\* getDevices of fetchInitialData resolved with a device list, app.js lines 59-68
InitialDevicesResponse ==
    /\ DashboardInits > 0
    /\ \E devices \in DeviceLists :
         /\ Apply(ForEachDevice(subscribers, Effect(state), devices, FALSE))
         /\ handled' = [op |-> "initialDevices", devices |-> devices, data |-> NoPayload, probe |-> NoProbe]
    /\ UNCHANGED <<inflight, issued, processed>>

\* getDevices of pollDeviceStatus resolved with a device list, app.js lines 133-145
DevicesResponse ==
    /\ DashboardInits > 0
    /\ \E devices \in DeviceLists :
         /\ Apply(ForEachDevice(subscribers, Effect(state), devices, TRUE))
         /\ handled' = [op |-> "devices", devices |-> devices, data |-> NoPayload, probe |-> NoProbe]
    /\ UNCHANGED <<inflight, issued, processed>>

\* pollMetrics sends getCurrentMetrics, app.js line 172
MetricsRequest ==
    /\ DashboardInits > 0
    /\ issued < MaxIssued
    /\ issued' = issued + 1
    /\ inflight' = Append(inflight, issued + 1)
    /\ handled' = NoResponse
    /\ calls' = << >>
    /\ writes' = << >>
    /\ uiCalls' = << >>
    /\ UNCHANGED <<state, subscribers, handles, lastSet, lastGet, processed>>
    /\ UNCHANGED <<reqVars, appVars, liveVars>>

\* One of the getCurrentMetrics requests in flight resolved, app.js lines 172-177
MetricsResponse ==
    /\ \E i \in 1..Len(inflight), data \in MetricsPayloads :
         /\ Apply(pollMetricsResponse(subscribers, Effect(state), data))
         /\ handled' = [op |-> "metrics", devices |-> << >>, data |-> data,
                        probe |-> NoProbe]
         /\ processed' = Append(processed, [seq |-> inflight[i], data |-> data])
         /\ inflight' = SubSeq(inflight, 1, i - 1) \o SubSeq(inflight, i + 1, Len(inflight))
    /\ UNCHANGED issued

\* getNetworkStats resolved with data, app.js lines 204-207
NetworkStatsResponse ==
    /\ DashboardInits > 0
    /\ Apply(updateNetworkStats(subscribers, Effect(state), NoPayload))
    /\ handled' = [op |-> "network", devices |-> << >>, data |-> NoPayload, probe |-> NoProbe]
    /\ UNCHANGED <<inflight, issued, processed>>

\* getQuestStorage resolved with data, app.js lines 217-220
QuestStorageResponse ==
    /\ DashboardInits > 0
    /\ Apply(updateQuestStorage(subscribers, Effect(state), NoPayload))
    /\ handled' = [op |-> "storage", devices |-> << >>, data |-> NoPayload, probe |-> NoProbe]
    /\ UNCHANGED <<inflight, issued, processed>>

\* getHealth of a checkBackendHealth ended, app.js lines 42-54
HealthResponse ==
    /\ DashboardInits > 0
    /\ \E response \in HealthResponses :
         LET r == checkBackendHealth(subscribers, Effect(state), response)
         IN  /\ Apply(r.effect)
             /\ handled' = [op |-> "health", devices |-> << >>, data |-> NoPayload,
                            probe |-> [response |-> response, returned |-> r.returned]]
    /\ UNCHANGED <<inflight, issued, processed>>

DataNext ==
    \/ DashboardInit
    \/ HealthResponse
    \/ InitialDevicesResponse
    \/ DevicesResponse
    \/ MetricsRequest
    \/ MetricsResponse
    \/ NetworkStatsResponse
    \/ QuestStorageResponse

Init ==
    /\ rpc = "idle"
    /\ attempt = 0
    /\ timeoutArmed = FALSE
    /\ aborted = FALSE
    /\ lastError = NoError
    /\ observed = << >>
    /\ delays = << >>
    /\ firedIn = "never"
    /\ state = InitialState
    /\ subscribers = << >>
    /\ handles = [s \in Slots |-> [fresh |-> 0, used |-> 0]]
    /\ calls = << >>
    /\ lastSet = NoSet
    /\ lastGet = NoGet
    /\ unsubscribing = NoUnsubscribe
    /\ pollTimer = FALSE
    /\ devicePollTimer = FALSE
    /\ isPolling = FALSE
    /\ pollCounter = 0
    /\ liveSlow = 0
    /\ liveFast = 0
    /\ reconnectTimers = 0
    /\ bootRetryTimers = 0
    /\ tasks = [t \in AllTasks |-> 0]
    /\ started = FALSE
    /\ bootFailures = 0
    /\ shutdownDone = FALSE
    /\ bootProbeOk = FALSE
    /\ initialFetch = "none"
    /\ dataRequested = FALSE
    /\ offlineHold = FALSE
    /\ reconnectResult = "none"
    /\ swallowed = FALSE
    /\ inflight = << >>
    /\ issued = 0
    /\ processed = << >>
    /\ handled = NoResponse
    /\ writes = << >>
    /\ uiCalls = << >>

SpecRequest == Init /\ [][ReqNext]_vars

SpecStore == Init /\ [][StoreNext]_vars

SpecStoreAbsent == Init /\ [][AbsentNext]_vars

SpecTree == Init /\ [][TreeNext]_vars

Spec == Init /\ [][AppNext]_vars

SpecData == Init /\ [][DataNext]_vars

SpecLive == Init /\ [][LiveNext]_vars

\* The orchestrator with its progress: the page becomes ready, a pending
\* timer fires, and a request that was sent is answered or rejected.  The
\* interval timers and shutdown are under no obligation.
SpecBoot ==
    /\ Init
    /\ [][AppNext]_vars
    /\ WF_vars(DomReady)
    /\ WF_vars(BootRetryFire)
    /\ WF_vars(BootProbeDone)
    /\ WF_vars(InitialDevicesDone)
    /\ WF_vars(ConnectionStatusDone)
    /\ WF_vars(ConnectionEventsDone)
    /\ WF_vars(MetricsDone)
    /\ WF_vars(ConfirmProbeDone)
    /\ WF_vars(NetworkStatsDone)
    /\ WF_vars(StorageDone)
    /\ WF_vars(RecordingStatusDone)
    /\ WF_vars(ReconnectFire)
    /\ WF_vars(ReconnectProbeDone)

(***************************************************************************)
(* Properties of the orchestrator (checked under Spec)                     *)
(***************************************************************************)
NoStreamTimer == ~pollTimer /\ ~devicePollTimer /\ liveSlow = 0 /\ liveFast = 0

\* C1: from the moment a failed metrics poll is confirmed by a failed health
\* probe until a reconnect probe succeeds, both interval timers are cleared,
\* so neither stream fires.
C1_OfflineStopsStreams ==
    offlineHold => NoStreamTimer /\ ~isPolling

\* C2: once shutdown has run, no interval timer, no reconnect timer and no
\* boot-retry timer is pending, and polling is not running.
C2_StopCancelsEveryTimer ==
    shutdownDone =>
        /\ NoStreamTimer
        /\ reconnectTimers = 0
        /\ bootRetryTimers = 0
        /\ ~isPolling

\* C3: before the first successful probe of init there is no data request of
\* the orchestrator, no initial fetch and no stream timer; and a stream timer
\* exists only once the initial data fetch has finished.
C3_BootOrdering ==
    /\ ~bootProbeOk =>
          /\ ~dataRequested
          /\ initialFetch = "none"
          /\ NoStreamTimer
          /\ getState(state, << "app", "online" >>) = Leaf("false")
    /\ (liveSlow > 0 \/ liveFast > 0) => initialFetch = "done"

Online(t) == getState(t, << "app", "online" >>) = Leaf("true")

\* C12: the step in which a reconnect probe succeeds leaves app.online true,
\* both interval timers set and polling running.
C12_ReconnectRestores ==
    [][ ( /\ tasks'[<< "reconnect", "health" >>] < tasks[<< "reconnect", "health" >>]
          /\ reconnectResult' = "ok" ) =>
            /\ Online(state')
            /\ pollTimer' /\ devicePollTimer' /\ isPolling'
            /\ liveSlow' > 0 /\ liveFast' > 0 ]_vars

\* C12's case: the latest reconnect probe succeeded, the system is online and
\* both streams have their timer
C12_Witness ==
    /\ reconnectResult = "ok"
    /\ Online(state)
    /\ liveSlow > 0 /\ liveFast > 0

\* C13: once the reconnect probe has failed, app.online stays false, no
\* reconnect timer and no reconnect probe is pending, and no stream timer is set.
C13_FailedReconnectStaysOffline ==
    reconnectResult = "failed" =>
        /\ ~Online(state)
        /\ reconnectTimers = 0
        /\ tasks[<< "reconnect", "health" >>] = 0
        /\ NoStreamTimer

\* The requests whose failure is swallowed: those of the fast stream, and
\* getNetworkStats and getQuestStorage of the slow stream
SwallowedTasks ==
    { << "fast", "devices" >>, << "fast", "connection" >>, << "fast", "events" >>,
      << "slow", "network" >>, << "slow", "storage" >> }

HealthProbes ==
    tasks[<< "init", "health" >>] + tasks[<< "init", "confirm" >>]
    + tasks[<< "slow", "confirm" >>] + tasks[<< "reconnect", "health" >>]

\* C20: a step in which a request of the fast stream, or getNetworkStats or
\* getQuestStorage of the slow stream, ends (failed or not) sends no health
\* probe and leaves app.online, app.error, the interval timers and the
\* reconnect timers as they were.
C20_SwallowedFailures ==
    [][ (\E t \in SwallowedTasks : tasks'[t] < tasks[t]) =>
            /\ HealthProbes' = HealthProbes
            /\ getState(state', << "app", "online" >>) = getState(state, << "app", "online" >>)
            /\ getState(state', << "app", "error" >>) = getState(state, << "app", "error" >>)
            /\ UNCHANGED <<pollerVars, reconnectTimers, bootRetryTimers>> ]_vars

\* C20's case: such a request has failed while the streams go on
C20_Witness ==
    /\ swallowed
    /\ liveSlow > 0 /\ liveFast > 0
    /\ Online(state)

\* C21: the counter of the slow stream never decreases; it grows by one in
\* exactly the steps in which a cycle of the slow stream has its network
\* statistics, and a cycle asks for the storage exactly when that step makes
\* the counter a multiple of 6.
C21_CounterAndStorage ==
    [][ /\ pollCounter' \in { pollCounter, pollCounter + 1 }
        /\ (pollCounter' = pollCounter + 1) <=>
               (tasks'[<< "slow", "network" >>] < tasks[<< "slow", "network" >>])
        /\ (tasks'[<< "slow", "storage" >>] > tasks[<< "slow", "storage" >>]) <=>
               (pollCounter' = pollCounter + 1 /\ pollCounter' % 6 = 0) ]_vars

\* C21's case: the sixth cycle of the slow stream has asked for the storage
C21_Witness ==
    /\ pollCounter = 6
    /\ tasks[<< "slow", "storage" >>] = 1

\* The health probes of init, of pollMetrics' catch block and of the
\* reconnect timer
ProbeTasks ==
    { << "init", "health" >>, << "init", "confirm" >>, << "slow", "confirm" >>,
      << "reconnect", "health" >> }

\* C23: app.online turns true only in a step in which a health probe
\* resolves, and turns false only in a step in which the probe that follows a
\* failed metrics poll resolves and the system goes offline; a failed boot
\* probe and a failed reconnect probe leave app.online as it was.
C23_OnlineChanges ==
    [][ /\ (Online(state') /\ ~Online(state)) =>
               \E t \in ProbeTasks : tasks'[t] < tasks[t]
        /\ (~Online(state') /\ Online(state)) =>
               /\ \E proc \in { "init", "slow" } :
                      tasks'[<< proc, "confirm" >>] < tasks[<< proc, "confirm" >>]
               /\ offlineHold'
        /\ (bootFailures' # bootFailures) => (Online(state') <=> Online(state))
        /\ ( /\ tasks'[<< "reconnect", "health" >>] < tasks[<< "reconnect", "health" >>]
             /\ reconnectResult' = "failed" ) => (Online(state') <=> Online(state)) ]_vars

\* C23's case: the system went online, then offline, and a reconnect probe
\* has failed since
C23_Witness ==
    /\ bootProbeOk
    /\ offlineHold
    /\ ~Online(state)
    /\ reconnectResult = "failed"

C29_OneReconnectPending ==
    reconnectTimers + tasks[<< "reconnect", "health" >>] <= 1

\* The requests for data: every request but the health probes
DataTasks == AllTasks \ ProbeTasks

\* C30: while the system is offline and no reconnect probe has succeeded, no
\* request for metrics, network statistics, storage, the device list or the
\* connection status is issued.
C30_NoDataRequestWhileOffline ==
    [][ (offlineHold /\ offlineHold') =>
            \A t \in DataTasks : tasks'[t] <= tasks[t] ]_vars

\* The probe of a pollMetrics resolved in this step
ConfirmResolved ==
    \E proc \in { "init", "slow" } :
        tasks'[<< proc, "confirm" >>] < tasks[<< proc, "confirm" >>]

\* C31: a step in which the probe that follows a failed metrics poll resolves
\* and after which the system is not held offline (the probe succeeded and no
\* earlier offline transition is open) leaves app.online true, clears no
\* interval timer, leaves isPolling alone and schedules no reconnect probe.
C31_ConfirmedOnlineKeepsStreams ==
    [][ (ConfirmResolved /\ ~offlineHold' ) =>
            /\ Online(state')
            /\ UNCHANGED <<pollerVars, reconnectTimers>>
            /\ tasks'[<< "reconnect", "health" >>] = tasks[<< "reconnect", "health" >>] ]_vars

\* C31's case: a metrics poll of a stream failed, its probe succeeded, and
\* the system is online with both timers set and no reconnect probe pending
C31_Witness ==
    /\ getState(state, << "app", "error" >>) = Leaf("message")
    /\ tasks[<< "init", "confirm" >>] = 0 /\ tasks[<< "slow", "confirm" >>] = 0
    /\ pollCounter > 0
    /\ ~offlineHold
    /\ Online(state)
    /\ liveSlow > 0 /\ liveFast > 0
    /\ reconnectTimers = 0 /\ tasks[<< "reconnect", "health" >>] = 0

\* C34: there is at most one interval timer of each stream, the variables
\* hold the timers that are live, isPolling is true exactly when both are
\* set; startPolling changes nothing while polling and stopPolling changes
\* nothing while stopped.
C34_OneTimerPerStream ==
    /\ liveSlow = (IF pollTimer THEN 1 ELSE 0)
    /\ liveFast = (IF devicePollTimer THEN 1 ELSE 0)
    /\ isPolling <=> (pollTimer /\ devicePollTimer)
    /\ isPolling => startPolling(Poller) = Poller
    /\ ~isPolling => stopPolling(Poller) = Poller

\* C34's case: init and a successful reconnect probe have both called
\* startPolling, and there is one timer of each stream
C34_Witness ==
    /\ initialFetch = "done"
    /\ reconnectResult = "ok"
    /\ isPolling
    /\ liveSlow = 1 /\ liveFast = 1

\* C35: each device status path has one subscriber at most, and exactly one
\* once a probe of init has succeeded.
C35_SubscribedOnce ==
    \A d \in DeviceIds :
        /\ Len(SubscribersAt(subscribers, StatusPath(d))) <= 1
        /\ bootProbeOk => Len(SubscribersAt(subscribers, StatusPath(d))) = 1

LastUpdate(t) == getState(t, << "app", "lastUpdate" >>)
AppError(t) == getState(t, << "app", "error" >>)

\* The getCurrentMetrics of a pollMetrics resolved in this step
MetricsResolved ==
    \E proc \in { "init", "slow" } :
        tasks'[<< proc, "metrics" >>] < tasks[<< proc, "metrics" >>]

\* C37: app.lastUpdate and app.error change only in a step in which a metrics
\* request resolves; a change of app.lastUpdate comes with app.error null; a
\* step that sends the health probe (the request failed) sets app.error to
\* the message and leaves app.lastUpdate; a step that sends none either sets
\* both (success with data) or leaves both (no success).
C37_LastUpdateAndError ==
    [][ /\ LastUpdate(state') # LastUpdate(state) => (MetricsResolved /\ AppError(state') = NULL)
        /\ AppError(state') # AppError(state) => MetricsResolved
        /\ MetricsResolved =>
              IF HealthProbes' > HealthProbes
              THEN /\ AppError(state') = Leaf("message")
                   /\ LastUpdate(state') = LastUpdate(state)
              ELSE \/ /\ LastUpdate(state') = Leaf("now")
                      /\ AppError(state') = NULL
                   \/ /\ LastUpdate(state') = LastUpdate(state)
                      /\ AppError(state') = AppError(state) ]_vars

\* C37's case: a metrics response was processed and a later metrics request failed
C37_Witness ==
    /\ LastUpdate(state) = Leaf("now")
    /\ AppError(state) = Leaf("message")

(***************************************************************************)
(* Properties of the handlers of the responses (checked under SpecData)    *)
(***************************************************************************)
\* How many elements of the sequence s satisfy Test
Count(s, Test(_)) == Cardinality({ i \in 1..Len(s) : Test(s[i]) })

\* C22: in a step in which pollDeviceStatus handles a device list, a device
\* whose polled status equals the stored one gets no set of its status and no
\* subscriber is called for it; a device whose status differs gets one set.
C22_SetOnlyOnChange ==
    [][ handled'.op = "devices" =>
          \A i \in 1..Len(handled'.devices) :
             LET device == handled'.devices[i]
                 path == StatusPath(device.id)
                 sets == Count(writes', LAMBDA w : w.path = path)
                 told == Count(calls', LAMBDA c : c.path = path)
             IN  IF getState(state, path) = Leaf(device.status)
                 THEN sets = 0 /\ told = 0
                 ELSE /\ sets = 1
                      /\ \E j \in 1..Len(writes') :
                            writes'[j] = [path |-> path, value |-> Leaf(device.status)] ]_vars

\* C22's case: a polled list in which the pc kept its status and the headset
\* changed its own: one set, for the headset
C22_Witness ==
    /\ handled.op = "devices"
    /\ Len(writes) = 1
    /\ writes[1].path = StatusPath(<< "quest", "_", "3" >>)
    /\ calls # << >>

\* C25: the metrics of the pc in the store are those of the response handled
\* last, whatever the order in which the requests were issued.
C25_LastProcessedWins ==
    processed # << >> =>
        getState(state, << "devices", "pc", "metrics", "cpu" >>)
            = Property(processed[Len(processed)].data.pc, "cpu")

\* C25's case: two requests were in flight together and the response to the
\* one issued first was handled last, with other data
C25_Witness ==
    /\ Len(processed) = 2
    /\ processed[1].seq = 2
    /\ processed[2].seq = 1
    /\ processed[1].data.pc # processed[2].data.pc
    /\ getState(state, << "devices", "pc", "metrics" , "cpu" >>)
           = Property(processed[2].data.pc, "cpu")

\* C26: the orchestrator calls no status handler of the dashboard itself, and
\* every set of a device status calls one subscriber for it.
C26_OnlyViaBroadcast ==
    /\ uiCalls = << >>
    /\ \A i \in 1..Len(writes) :
          (\E d \in DeviceIds : writes[i].path = StatusPath(d)) =>
              Count(calls, LAMBDA c : c.at = writes[i].path)
                  = Count(writes, LAMBDA w : w.path = writes[i].path)

\* C27: a successful response of the metrics, network statistics or storage
\* poll ends with at least one set of the store.
C27_FetchedDataStored ==
    handled.op \in { "metrics", "network", "storage" } => writes # << >>

\* C33: checkBackendHealth returns true or false, never raises; it returns
\* true exactly for a body whose success is true, and then app.online is
\* true; for a rejection, the body null, or a body without success or with
\* success false it returns false and sets nothing.
C33_ProbeSuccess ==
    handled.op = "health" =>
        /\ handled.probe.returned \in { "true", "false" }
        /\ handled.probe.returned = "true" <=>
              (handled.probe.response.kind = "body" /\ handled.probe.response.success = "true")
        /\ handled.probe.returned = "true" => Online(state)
        /\ handled.probe.returned = "false" => writes = << >>

\* C33's case: the request returned a body with success false, and the probe
\* counted as failed
C33_Witness ==
    /\ handled.op = "health"
    /\ handled.probe.response = [kind |-> "body", success |-> "false"]
    /\ handled.probe.returned = "false"

(***************************************************************************)
(* Properties of APIClient.request (checked under SpecRequest)             *)
(***************************************************************************)
RequestOver == rpc \in { "returned", "failed" }

IsClientErrorResponse(o) == o.kind = "response" /\ o.status >= 400 /\ o.status <= 499

\* C4: a response with a 4xx status ends the request at once: no attempt
\* follows it (it is the only attempt when it answers the first), no backoff
\* delay is waited after it, and the request fails, with the server's error
\* message when the body carries one.
C4_ClientErrorFailsAtOnce ==
    \A i \in 1..Len(observed) :
        IsClientErrorResponse(observed[i]) =>
            /\ Len(observed) = i
            /\ Len(delays) = i - 1
            /\ rpc = "failed"
            /\ (observed[i].body.json /\ observed[i].body.message # << >>) =>
                   lastError.message = observed[i].body.message

StrictlyIncreasing(s) == \A i, j \in 1..Len(s) : i < j => s[i] < s[j]

\* C5: a request whose every attempt received HTTP 500 has made exactly
\* MAX_RETRIES attempts when it is over, waited strictly increasing delays
\* between them, and failed with the error of the last attempt.
C5_ServerErrorRetried ==
    ( /\ RequestOver
      /\ observed # << >>
      /\ \A i \in 1..Len(observed) :
            observed[i].kind = "response" /\ observed[i].status = 500 ) =>
        /\ rpc = "failed"
        /\ Len(observed) = MAX_RETRIES
        /\ Len(delays) = MAX_RETRIES - 1
        /\ StrictlyIncreasing(delays)
        /\ lastError = ThrownFor(observed[Len(observed)].status,
                                 observed[Len(observed)].body)

\* C6: while a call of the request is in flight, the first or a retry, the
\* timeout is pending or has cancelled it.
C6_TimeoutCoversEveryAttempt ==
    rpc = "fetching" => (timeoutArmed \/ aborted)

\* The errors a response or a transport failure ends an attempt with
AttemptErrors ==
    { ThrownFor(status, body) : status \in Statuses, body \in Bodies }
    \cup { [name |-> "TypeError", message |-> << "Failed to fetch" >>] }

C32_BackoffSchedule ==
    /\ \A k \in 1..Len(delays) : delays[k] = 100 * Pow2(k)
    /\ Len(delays) <= MAX_RETRIES - 1
    /\ rpc = "backoff" => Len(delays) = Len(observed)
    /\ rpc \in { "fetching", "returned" } => Len(delays) = attempt - 1
    /\ RequestOver => Len(delays) = Len(observed) - 1

\* C32's case: three attempts failed, with delays of 200 ms and 400 ms
\* between them and none after the third
C32_Witness ==
    /\ rpc = "failed"
    /\ Len(observed) = MAX_RETRIES
    /\ delays = << 200, 400 >>

\* The i-th fetch ended with a body that request returns
Succeeded(o) == o.kind = "response" /\ ThrownFor(o.status, o.body) = NoError

\* C36: a request makes 3 attempts at most; only its last attempt can have
\* succeeded, and then the request has returned; a request that failed has an
\* error to throw and no successful attempt; once the request is over,
\* nothing of it changes.
C36_BoundedAttempts ==
    [][ /\ Len(observed') <= 3
        /\ \A i \in 1..Len(observed') :
              Succeeded(observed'[i]) => (i = Len(observed') /\ rpc' = "returned")
        /\ rpc' = "returned" => Succeeded(observed'[Len(observed')])
        /\ rpc' = "failed" => lastError' # NoError
        /\ RequestOver => UNCHANGED <<rpc, attempt, lastError, observed, delays>> ]_vars

\* C36's case: the third attempt succeeded after two that failed
C36_Witness ==
    /\ rpc = "returned"
    /\ Len(observed) = 3
    /\ ~Succeeded(observed[1]) /\ ~Succeeded(observed[2])

(***************************************************************************)
(* Properties of StateManager (checked under SpecStore)                    *)
\* The request failed as 'Request timeout'
TimedOut == rpc = "failed" /\ lastError.message = << "Request timeout" >>

\* C24: a request fails as a timeout only if the timer fired while one of its
\* calls was in flight; a timer that fires during a backoff delay cancels
\* nothing, and the retry behind the delay is issued as a real attempt.
C24_TimeoutOnlyInFlight ==
    TimedOut => firedIn = "fetching"

(***************************************************************************)
\* A setState has run and its broadcast is the content of calls
BroadcastDone == lastSet.path # << >> /\ ~lastSet.raised

\* How often callback cb, registered at path at, was called in the latest broadcast
TimesCalled(at, cb) ==
    Cardinality({ i \in 1..Len(calls) : calls[i].at = at /\ calls[i].cb = cb })

\* Where callback cb stands in the Set of path at (0: not in it)
PlaceIn(at, cb) ==
    LET cbs == SubscribersAt(subscribers, at)
    IN  IF \E i \in 1..Len(cbs) : cbs[i] = cb
        THEN CHOOSE i \in 1..Len(cbs) : cbs[i] = cb
        ELSE 0

\* C7: on a set of a path, a callback is called once per registration of it at
\* that path that has not been unsubscribed: twice when it was registered
\* twice, once after one of the two unsubscribe functions was called.
C7_CalledOncePerRegistration ==
    BroadcastDone /\ lastSet.path \in SubPaths =>
        \A cb \in Callbacks :
            TimesCalled(lastSet.path, cb) = handles[<<lastSet.path, cb>>].fresh

\* C8: a call of an unsubscribe function that was called before (a step that
\* neither issues an unsubscribe function nor uses up an uncalled one) leaves
\* every registration as it is.
C8_SecondUnsubscribeIsNoOp ==
    [][handles' = handles => subscribers' = subscribers]_vars

\* The place of a call in the broadcast order: the exact path first, then the
\* strict ancestors by depth, then the wildcard
ScopeRank(c) ==
    IF c.at = c.path THEN 0
    ELSE IF c.at = << "*" >> THEN Len(c.path) + 1
    ELSE Len(c.at)

\* C9: the calls of a broadcast come in the order exact path (in registration
\* order), then each strict ancestor from the shallowest to the deepest, then
\* the wildcard, each Set in its registration order.
C9_BroadcastOrder ==
    BroadcastDone =>
        /\ \A i \in 1..Len(calls) :
              /\ calls[i].path = lastSet.path
              /\ \/ calls[i].at = lastSet.path
                 \/ calls[i].at = << "*" >>
                 \/ (IsPrefix(calls[i].at, lastSet.path) /\ Len(calls[i].at) >= 1)
              /\ PlaceIn(calls[i].at, calls[i].cb) > 0
        /\ \A i, j \in 1..Len(calls) :
              i < j =>
                /\ ScopeRank(calls[i]) <= ScopeRank(calls[j])
                /\ calls[i].at = calls[j].at =>
                      PlaceIn(calls[i].at, calls[i].cb) < PlaceIn(calls[j].at, calls[j].cb)

\* C9's case: a broadcast that called an exact, an ancestor and a wildcard subscriber
C9_Witness ==
    /\ BroadcastDone
    /\ \E i, j, k \in 1..Len(calls) :
          /\ calls[i].at = lastSet.path
          /\ calls[j].at \notin { lastSet.path, << "*" >> }
          /\ calls[k].at = << "*" >>

\* The paths whose subscribers a set of path p serves
ScopesOf(p) == { p, << "*" >> } \cup { SubSeq(p, 1, i) : i \in 1..(Len(p) - 1) }

\* C10: when a callback throws in a broadcast, every callback registered at
\* the path, at an ancestor or at the wildcard is still called, setState does
\* not throw, and the value written is in the tree.
C10_FailureIsolation ==
    (BroadcastDone /\ \E i \in 1..Len(calls) : calls[i].threw) =>
        /\ \A at \in ScopesOf(lastSet.path) :
              \A cb \in Callbacks :
                  PlaceIn(at, cb) > 0 => TimesCalled(at, cb) >= 1
        /\ ~lastSet.raised
        /\ getState(state, lastSet.path) = lastSet.value

\* C10's case: a callback threw, and a callback of the same Set and one of
\* another scope were called after it
C10_Witness ==
    /\ BroadcastDone
    /\ \E i, j, k \in 1..Len(calls) :
          /\ i < j /\ j < k
          /\ calls[i].threw
          /\ calls[j].at = calls[i].at
          /\ calls[k].at # calls[i].at

\* The place in calls of the first call of callback cb (0: it was not called)
FirstCall(cb) ==
    IF \E i \in 1..Len(calls) : calls[i].cb = cb
    THEN CHOOSE i \in 1..Len(calls) :
            calls[i].cb = cb /\ \A j \in 1..(i - 1) : calls[j].cb # cb
    ELSE 0

\* C38: after a set during whose broadcast a callback unsubscribed itself or
\* another, every callback that is still registered at the path, at an
\* ancestor or at the wildcard was called exactly once there, and the
\* registration that was removed was called once at most and not after the
\* call that removed it.
C38_UnsubscribeDuringBroadcast ==
    BroadcastDone =>
        /\ \A at \in ScopesOf(lastSet.path) :
              \A i \in 1..Len(SubscribersAt(subscribers, at)) :
                  TimesCalled(at, SubscribersAt(subscribers, at)[i]) = 1
        /\ (unsubscribing # NoUnsubscribe /\ FirstCall(unsubscribing.who) > 0) =>
              /\ PlaceIn(unsubscribing.path, unsubscribing.cb) = 0
              /\ TimesCalled(unsubscribing.path, unsubscribing.cb) <= 1
              /\ \A i \in 1..Len(calls) :
                    ( /\ calls[i].at = unsubscribing.path
                      /\ calls[i].cb = unsubscribing.cb ) =>
                        i <= FirstCall(unsubscribing.who)

\* C38's case: the first callback of the path removed itself while the
\* broadcast ran, and the second one, still registered, was called
C38_Witness ==
    /\ BroadcastDone
    /\ unsubscribing.who = "cb1" /\ unsubscribing.cb = "cb1"
    /\ unsubscribing.path = lastSet.path
    /\ Len(calls) >= 2
    /\ calls[1].cb = "cb1" /\ calls[1].at = lastSet.path
    /\ calls[2].cb = "cb2" /\ calls[2].at = lastSet.path
    /\ SubscribersAt(subscribers, lastSet.path) = << "cb2" >>

(***************************************************************************)
(* Properties of the state tree (checked under SpecTree)                   *)
(***************************************************************************)
\* The paths of the schema the tree is initialized with
SchemaPaths == DOMAIN InitialState \ { << >> }

\* C11: right after set(p, v) for a path p of the schema, set has not thrown
\* and get(p) returns v.
C11_RoundTrip ==
    lastSet.path \in SchemaPaths =>
        /\ ~lastSet.raised
        /\ getState(state, lastSet.path) = lastSet.value

\* C11's case: a text and an object were written and are read back
C11_Witness ==
    /\ lastSet.path = << "ui", "recording" >>
    /\ IsObject(lastSet.value)
    /\ getState(state, << "app", "error" >>) = Leaf("message")
    /\ getState(state, lastSet.path) = lastSet.value

\* C15: the tree has the keys it was initialized with, at every level, and
\* the same nodes are objects.
C15_SchemaFixed ==
    /\ DOMAIN state = DOMAIN InitialState
    /\ \A p \in DOMAIN InitialState : (state[p] = "OBJ") <=> (InitialState[p] = "OBJ")

\* The value at path p: the tree for no path, undefined when a segment is absent
Resolve(t, p) ==
    IF p = << >> THEN t
    ELSE IF p \in DOMAIN t THEN ValueAt(t, p)
    ELSE UNDEFINED

\* C18: get() returns the tree, and get(path) for a path string returns the
\* value at the path, undefined when a segment of it is absent.
C18_GetResolves ==
    lastGet.called => lastGet.value = Resolve(state, lastGet.path)

(***************************************************************************)
(* Further properties of StateManager (checked under SpecStore and         *)
(* SpecStoreAbsent)                                                        *)
(***************************************************************************)
\* C16: when setState has returned, each callback in the Set of the path, of a
\* strict ancestor or of the wildcard has been called exactly once for this
\* write at that scope, and nothing else was called.
C16_DeliveredOnce ==
    BroadcastDone =>
        /\ \A at \in ScopesOf(lastSet.path) :
              \A cb \in Callbacks :
                  TimesCalled(at, cb) = IF PlaceIn(at, cb) > 0 THEN 1 ELSE 0
        /\ \A i \in 1..Len(calls) :
              /\ calls[i].at \in ScopesOf(lastSet.path)
              /\ calls[i].path = lastSet.path

\* C16's case: three registrations were served, one callback at two scopes
C16_Witness ==
    /\ BroadcastDone
    /\ Len(calls) = 3
    /\ \E i, j \in 1..Len(calls) :
          /\ calls[i].cb = calls[j].cb
          /\ calls[i].at = lastSet.path
          /\ calls[j].at = << "*" >>

\* C17: in a setState that returns, the callbacks of the path and of the
\* wildcard get (value, the value at the path before the write, path); the
\* callbacks of a strict ancestor get (the ancestor's subtree after the write,
\* which has the value at the path, null, path).
C17_NotificationArguments ==
    [][ (lastSet'.path # << >> /\ ~lastSet'.raised) =>
          \A i \in 1..Len(calls') :
              LET c == calls'[i]
                  path == lastSet'.path
              IN  /\ c.path = path
                  /\ IF c.at \in { path, << "*" >> }
                     THEN /\ c.newValue = lastSet'.value
                          /\ c.oldValue = getState(state, path)
                     ELSE /\ c.newValue = getState(state', c.at)
                          /\ getState(c.newValue, SubSeq(path, Len(c.at) + 1, Len(path)))
                                = lastSet'.value
                          /\ c.oldValue = NULL ]_vars

\* C17's case: a write that changed the value, told to a subscriber of the
\* path and to one of the ancestor devices
C17_Witness ==
    /\ BroadcastDone
    /\ \E i, j \in 1..Len(calls) :
          /\ calls[i].at = lastSet.path
          /\ calls[i].oldValue # calls[i].newValue
          /\ calls[j].at = << "devices" >>
          /\ calls[j].oldValue = NULL
          /\ IsObject(calls[j].newValue)

\* C19: a setState whose path does not lead to an object (an intermediate
\* segment is missing or holds a value that is no object) leaves the tree as
\* it is and calls no subscriber.
C19_FailedSetChangesNothing ==
    [][ ( /\ lastSet'.path # << >>
          /\ ~IsObject(GetFrom(state, Front(lastSet'.path))) ) =>
            /\ state' = state
            /\ calls' = << >> ]_vars

====
